---- MODULE Spec2Model ----
(***************************************************************************)
(* Verification model of the blueprint processing pipeline.                *)
(*                                                                         *)
(* Part 1: UniversalProcessor (src/src/utils/universalProcessor.ts), the   *)
(* staged orchestrator with its result cache, together with the parts of   *)
(* BlueprintAnalyzer, TextFilterEngine, LineClassifier and                 *)
(* FloorPlanAnalyzer that decide how a stage ends.                         *)
(*                                                                         *)
(* Strings are sequences of character codes.  Images are identified by     *)
(* the input they were decoded from and by whether the text filter has     *)
(* repainted them.  Confidences are percentages.                           *)
(***************************************************************************)
EXTENDS Integers, Sequences, FiniteSets, TLC

VARIABLES isInitialized, cache, fpaImage, run, calls, last, cv, dp, lcRun, sc, pm, ip, tv, ur

\* The processor's variables, and those of the components modelled on their
\* own in the later parts
procVars == <<isInitialized, cache, fpaImage, run, calls, last>>
unitVars == <<cv, dp, lcRun, sc, pm, ip, tv, ur>>
vars == <<procVars, unitVars>>

\* Bounds of the model.
MaxCalls == 2
MaxOverlap == 2

Slots == 1..MaxOverlap

Min(a, b) == IF a < b THEN a ELSE b

(***************************************************************************)
(* Character data                                                          *)
(***************************************************************************)
\* '{' '}' ',' 'true' 'false'
JsonOpen == <<123>>
JsonClose == <<125>>
JsonComma == <<44>>
JsonTrue == <<116, 114, 117, 101>>
JsonFalse == <<102, 97, 108, 115, 101>>
\* '"enableTextFiltering":'
KeyEnableTextFiltering == <<34, 101, 110, 97, 98, 108, 101, 84, 101, 120, 116, 70, 105, 108, 116, 101, 114, 105, 110, 103, 34, 58>>
\* '"enableLineClassification":'
KeyEnableLineClassification == <<34, 101, 110, 97, 98, 108, 101, 76, 105, 110, 101, 67, 108, 97, 115, 115, 105, 102, 105, 99, 97, 116, 105, 111, 110, 34, 58>>
\* '"enableOCR":'
KeyEnableOCR == <<34, 101, 110, 97, 98, 108, 101, 79, 67, 82, 34, 58>>
\* '"preserveDimensions":'
KeyPreserveDimensions == <<34, 112, 114, 101, 115, 101, 114, 118, 101, 68, 105, 109, 101, 110, 115, 105, 111, 110, 115, 34, 58>>
\* '"autoDetectScale":'
KeyAutoDetectScale == <<34, 97, 117, 116, 111, 68, 101, 116, 101, 99, 116, 83, 99, 97, 108, 101, 34, 58>>
\* '"generatePreview":'
KeyGeneratePreview == <<34, 103, 101, 110, 101, 114, 97, 116, 101, 80, 114, 101, 118, 105, 101, 119, 34, 58>>
\* '"debugMode":'
KeyDebugMode == <<34, 100, 101, 98, 117, 103, 77, 111, 100, 101, 34, 58>>
\* 'data:image/png;base64,iVBORw0KGgo' : how every PNG data URL begins
PngHeader == <<100, 97, 116, 97, 58, 105, 109, 97, 103, 101, 47, 112, 110, 103, 59, 98, 97, 115, 101, 54, 52, 44, 105, 86, 66, 79, 82, 119, 48, 75, 71, 103, 111>>
\* 'plan' : a string that is not an image
TextPlan == <<112, 108, 97, 110>>
\* a file name in Cyrillic letters followed by '.png'
FileNameCyr == <<1087, 1083, 1072, 1085, 46, 112, 110, 103>>

(***************************************************************************)
(* Inputs and options                                                      *)
(***************************************************************************)
\* ProcessingInput: data is a string (kind "string") or a File whose name
\* is `name` (kind "file").  loadable: the browser can decode the data as
\* an image.  image: identity of the decoded raster.
PngA == [kind |-> "string", data |-> PngHeader \o <<65, 65>>, name |-> <<>>,
         loadable |-> TRUE, image |-> "A"]
PngB == [kind |-> "string", data |-> PngHeader \o <<66, 66>>, name |-> <<>>,
         loadable |-> TRUE, image |-> "B"]
NotAnImage == [kind |-> "string", data |-> TextPlan, name |-> <<>>,
               loadable |-> FALSE, image |-> "none"]
CyrFile == [kind |-> "file", data |-> <<>>, name |-> FileNameCyr,
            loadable |-> TRUE, image |-> "C"]
NoInput == [kind |-> "none", data |-> <<>>, name |-> <<>>,
            loadable |-> FALSE, image |-> "none"]

Inputs == {PngA, PngB, NotAnImage, CyrFile}

\* ProcessingOptions after the defaults are merged in.  progressCallback is
\* "none" (absent), "reliable" (never throws) or "faulty" (may throw an
\* Error or some other value when invoked).
MkOptions(tf, lc, pv, cb) ==
  [enableTextFiltering |-> tf, enableLineClassification |-> lc,
   enableOCR |-> TRUE, preserveDimensions |-> FALSE,
   autoDetectScale |-> TRUE, generatePreview |-> pv, debugMode |-> FALSE,
   progressCallback |-> cb]

NoOptions == MkOptions(FALSE, FALSE, FALSE, "none")

OptionSets ==
  {MkOptions(tf, lc, pv, cb) :
     tf \in BOOLEAN, lc \in BOOLEAN, pv \in BOOLEAN, cb \in {"reliable", "faulty"}}

(***************************************************************************)
(* generateCacheKey                                                        *)
(***************************************************************************)
JsonBool(b) == IF b THEN JsonTrue ELSE JsonFalse

\* JSON.stringify(options): the keys in insertion order; a function-valued
\* property (progressCallback) is left out.
JsonStringify(o) ==
  JsonOpen
  \o KeyEnableTextFiltering \o JsonBool(o.enableTextFiltering) \o JsonComma
  \o KeyEnableLineClassification \o JsonBool(o.enableLineClassification) \o JsonComma
  \o KeyEnableOCR \o JsonBool(o.enableOCR) \o JsonComma
  \o KeyPreserveDimensions \o JsonBool(o.preserveDimensions) \o JsonComma
  \o KeyAutoDetectScale \o JsonBool(o.autoDetectScale) \o JsonComma
  \o KeyGeneratePreview \o JsonBool(o.generatePreview) \o JsonComma
  \o KeyDebugMode \o JsonBool(o.debugMode)
  \o JsonClose

\* String.prototype.slice(a, e) for 0 <= a <= e
Slice(s, a, e) == SubSeq(s, a + 1, Min(e, Len(s)))

\* btoa throws InvalidCharacterError when a code unit exceeds 255
BtoaThrows(s) == \E i \in 1..Len(s) : s[i] > 255

Base64Pad == 64

\* btoa: three bytes become four 6-bit digits; a short last group is padded
Btoa(s) ==
  LET n == Len(s)
      B(i) == IF i <= n THEN s[i] ELSE 0
      Digit(k) ==
        LET g == (k - 1) \div 4
            j == (k - 1) % 4
            b1 == B(3 * g + 1)
            b2 == B(3 * g + 2)
            b3 == B(3 * g + 3)
        IN CASE j = 0 -> b1 \div 4
             [] j = 1 -> (b1 % 4) * 16 + (b2 \div 16)
             [] j = 2 -> IF 3 * g + 2 > n THEN Base64Pad
                         ELSE (b2 % 16) * 4 + (b3 \div 64)
             [] OTHER -> IF 3 * g + 3 > n THEN Base64Pad ELSE b3 % 64
  IN [k \in 1..(4 * ((n + 2) \div 3)) |-> Digit(k)]

InputSliceLen == 100
KeyLen == 32

\* typeof input.data === 'string' ? input.data.slice(0, 100) : input.data.name
InputStr(input) ==
  IF input.kind = "string" THEN Slice(input.data, 0, InputSliceLen) ELSE input.name

CacheKeyThrows(input, o) == BtoaThrows(InputStr(input) \o JsonStringify(o))

generateCacheKey(input, o) ==
  Slice(Btoa(InputStr(input) \o JsonStringify(o)), 0, KeyLen)

(***************************************************************************)
(* Stages and results                                                      *)
(***************************************************************************)
MkStage(n) == [name |-> n, status |-> "pending", progress |-> 0, error |-> ""]

\* Array.prototype.splice(i, 0, x)
Splice(s, i, x) == SubSeq(s, 1, i) \o <<x>> \o SubSeq(s, i + 1, Len(s))

initializeStages(o) ==
  LET base == <<MkStage("blueprint_analysis"), MkStage("structure_generation"),
                MkStage("quality_assessment")>>
      s1 == IF o.enableTextFiltering
              THEN Splice(base, 1, MkStage("text_filtering")) ELSE base
      s2 == IF o.enableLineClassification
              THEN Splice(s1, IF o.enableTextFiltering THEN 2 ELSE 1,
                          MkStage("line_classification"))
              ELSE s1
  IN IF o.generatePreview THEN Append(s2, MkStage("preview_generation")) ELSE s2

\* stages.find(s => s.name === n): index of the first match, 0 when none
FindStage(stages, n) ==
  IF \E i \in 1..Len(stages) : stages[i].name = n
    THEN CHOOSE i \in 1..Len(stages) :
           /\ stages[i].name = n
           /\ \A j \in 1..(i - 1) : stages[j].name # n
    ELSE 0

\* stages.find(s => s.status === 'processing')
FindProcessing(stages) ==
  IF \E i \in 1..Len(stages) : stages[i].status = "processing"
    THEN CHOOSE i \in 1..Len(stages) :
           /\ stages[i].status = "processing"
           /\ \A j \in 1..(i - 1) : stages[j].status # "processing"
    ELSE 0

NoImage == [src |-> "none", cleaned |-> FALSE]
NoAnalysis == [processedImage |-> NoImage, type |-> "unknown", confidence |-> 0,
               failed |-> FALSE]
NoTextFilter == [present |-> FALSE, cleanedImage |-> NoImage, regions |-> 0,
                 confidence |-> 0, failed |-> FALSE]
NoLineClass == [present |-> FALSE, lines |-> 0, confidence |-> 0]
NoShapes == [from |-> "none", count |-> 0, fallback |-> FALSE]

\* ProcessedBlueprint as process creates it.  Two history fields: madeWith is
\* the option set of the run that built the object, cvFailed records that
\* processFloorPlan answered from its catch block.
NewResult(input, o, stages) ==
  [originalInput |-> input, madeWith |-> o, analysis |-> NoAnalysis,
   textFilter |-> NoTextFilter, lineClass |-> NoLineClass,
   rooms |-> NoShapes, walls |-> NoShapes,
   confidence |-> [total |-> 0, components |-> 0], warnings |-> {},
   errors |-> <<>>, stages |-> stages, preview |-> FALSE, cvFailed |-> FALSE]

NoResult == NewResult(NoInput, NoOptions, <<>>)

\* Thrown values: an Error with a message, or any other value
NoExc == [thrown |-> FALSE, isError |-> FALSE, message |-> ""]
ErrorExc(m) == [thrown |-> TRUE, isError |-> TRUE, message |-> m]
OtherExc == [thrown |-> TRUE, isError |-> FALSE, message |-> ""]

\* error instanceof Error ? error.message : 'Unknown processing error'
ProcessErrorMessage(e) == IF e.isError THEN e.message ELSE "Unknown processing error"
\* error instanceof Error ? error.message : 'Unknown error'
StageErrorMessage(e) == IF e.isError THEN e.message ELSE "Unknown error"

(***************************************************************************)
(* What the analysis components find in each raster                        *)
(***************************************************************************)
Rasters == {"A", "B", "C"}
TypeOf(src) == IF src = "B" THEN "hand_drawn" ELSE "elevation"
TextRegionsIn(src) == IF src = "A" THEN 2 ELSE 0
TextConfidenceIn(src) == IF src = "A" THEN 90 ELSE 0
LinesIn(src) == IF src = "A" THEN 4 ELSE 0
LineConfidenceIn(src) == IF src = "A" THEN 80 ELSE 0
RoomsIn(src) == IF src = "A" THEN 3 ELSE IF src = "B" THEN 1 ELSE 0
WallsIn(src) == IF src = "A" THEN 6 ELSE 0

\* BlueprintAnalyzer.analyze: a result with the decoded raster, or (catch)
\* type UNKNOWN, confidence 0 and no processedImage
analyze(input) ==
  IF input.loadable
    THEN [processedImage |-> [src |-> input.image, cleaned |-> FALSE],
          type |-> TypeOf(input.image), confidence |-> 50, failed |-> FALSE]
    ELSE [processedImage |-> NoImage, type |-> "unknown", confidence |-> 0,
          failed |-> TRUE]

\* TextFilterEngine.filterText: ocrOk = the OCR capability answered.  When
\* it did not, the original image comes back with no regions, confidence 0.
filterText(img, ocrOk) ==
  IF ocrOk
    THEN [present |-> TRUE,
          cleanedImage |-> [src |-> img.src, cleaned |-> TextRegionsIn(img.src) > 0],
          regions |-> TextRegionsIn(img.src),
          confidence |-> TextConfidenceIn(img.src), failed |-> FALSE]
    ELSE [present |-> TRUE, cleanedImage |-> img, regions |-> 0, confidence |-> 0,
          failed |-> TRUE]

\* LineClassifier.classifyLines
classifyLines(img) ==
  [present |-> TRUE, lines |-> LinesIn(img.src), confidence |-> LineConfidenceIn(img.src)]

FallbackRoomCount == 2
FallbackWallCount == 6
generateFallbackRooms == [from |-> "fallback", count |-> FallbackRoomCount, fallback |-> TRUE]
generateFallbackWalls == [from |-> "fallback", count |-> FallbackWallCount, fallback |-> TRUE]

\* FloorPlanAnalyzer.loadImage runs only while this.imageData is null
LoadedImage(held, img) == IF held = NoImage THEN img ELSE held

\* FloorPlanAnalyzer.processFloorPlan on the raster it holds.  completed =
\* the try block ran to its return; otherwise the catch block answers.
processFloorPlan(held, completed) ==
  IF completed
    THEN [rooms |-> IF RoomsIn(held.src) > 0
                      THEN [from |-> held.src, count |-> RoomsIn(held.src), fallback |-> FALSE]
                      ELSE generateFallbackRooms,
          walls |-> IF WallsIn(held.src) > 0
                      THEN [from |-> held.src, count |-> WallsIn(held.src), fallback |-> FALSE]
                      ELSE generateFallbackWalls,
          failed |-> FALSE]
    ELSE [rooms |-> generateFallbackRooms, walls |-> generateFallbackWalls,
          failed |-> TRUE]

\* The progress values processFloorPlan reports, in order
CvProgress == <<10, 30, 50, 70, 80, 90, 100>>

\* result.textFilterResult?.cleanedImage || result.blueprintAnalysis.processedImage
\* (NoImage: convertInputToImageData(input.data) is awaited instead)
ImageAtHand(res) ==
  IF res.textFilter.present /\ res.textFilter.cleanedImage # NoImage
    THEN res.textFilter.cleanedImage
    ELSE res.analysis.processedImage

\* convertInputToImageData: the decoded raster; rejects with the error
\* event (not an Error) when the data cannot be decoded
convertInputToImageData(input) ==
  IF input.loadable THEN [src |-> input.image, cleaned |-> FALSE] ELSE NoImage

calculateOverallConfidence(res) ==
  LET a == [total |-> res.analysis.confidence, components |-> 1]
      t == IF res.textFilter.present
             THEN [total |-> a.total + res.textFilter.confidence,
                   components |-> a.components + 1]
             ELSE a
      l == IF res.lineClass.present
             THEN [total |-> t.total + res.lineClass.confidence,
                   components |-> t.components + 1]
             ELSE t
  IN IF res.rooms.count > 0
       THEN [total |-> l.total + 80, components |-> l.components + 1]
       ELSE l

TextWarningLimit == 50

generateWarnings(res) ==
  (IF res.confidence.total < 50 * res.confidence.components
     THEN {"Low confidence in processing results. Manual review recommended."} ELSE {})
  \cup (IF res.rooms.count = 0 THEN {"No rooms were detected in the blueprint."} ELSE {})
  \cup (IF res.walls.count = 0 THEN {"No walls were detected in the blueprint."} ELSE {})
  \cup (IF res.textFilter.present /\ res.textFilter.regions > TextWarningLimit
          THEN {"High amount of text detected. Some structural lines may have been filtered."}
          ELSE {})
  \cup (IF res.analysis.type = "unknown"
          THEN {"Blueprint type could not be determined automatically."} ELSE {})

(***************************************************************************)
(* One call of process                                                     *)
(***************************************************************************)
\* pc: "idle" (no call), "init" (awaiting initialize), "ready" (between
\* stages), "running" (inside executeStage), "done" (the promise settled).
\* pos: how far process has come in its sequence of executeStage calls.
\* started, events and exc are history: the stages in the order they were
\* started, the progress callbacks made, the value that ended the run.
\* The variable `last` is history too: the latest call that settled, forgotten
\* when the cache is cleared.
IdleRun ==
  [pc |-> "idle", input |-> NoInput, opts |-> NoOptions, key |-> <<>>, pos |-> 0,
   result |-> NoResult, started |-> <<>>, events |-> <<>>, exc |-> NoExc,
   outcome |-> "none", fromCache |-> FALSE]

NoLast == [valid |-> FALSE, input |-> NoInput, opts |-> NoOptions,
           result |-> NoResult, outcome |-> "none", fromCache |-> FALSE]

\* Plan with text filtering and line classification exchanged
Plan_m == <<"blueprint_analysis", "line_classification", "text_filtering",
            "structure_generation", "quality_assessment", "preview_generation">>

\* The executeStage calls of process, in program order
Plan == <<"blueprint_analysis", "text_filtering", "line_classification",
          "structure_generation", "quality_assessment", "preview_generation">>

\* The condition under which process makes its j-th executeStage call
StageWanted(rn, j) ==
  CASE j = 2 -> rn.opts.enableTextFiltering /\ rn.result.analysis.processedImage # NoImage
    [] j = 3 -> rn.opts.enableLineClassification
    [] j = 6 -> rn.opts.generatePreview
    [] OTHER -> TRUE

\* The next executeStage call after position rn.pos; 0 when none is left
NextPos(rn) ==
  LET later == {j \in (rn.pos + 1)..Len(Plan) : StageWanted(rn, j)}
  IN IF later = {} THEN 0 ELSE CHOOSE j \in later : \A k \in later : j <= k

\* What an invocation of opts.progressCallback can do
CbOutcomes(o) ==
  IF o.progressCallback = "faulty" THEN {"ok", "throwError", "throwOther"} ELSE {"ok"}

ExcOf(c) ==
  CASE c = "throwError" -> ErrorExc("callback failed")
    [] c = "throwOther" -> OtherExc
    [] OTHER -> NoExc

\* opts.progressCallback?.(stage, progress, ...)
Invoke(events, o, stage, p) ==
  IF o.progressCallback = "none" THEN events
  ELSE Append(events, [stage |-> stage, progress |-> p])

\* The record of the latest settled call once activation rn has taken a step
Settle(rn, before) ==
  IF rn.pc = "done"
    THEN [valid |-> TRUE, input |-> rn.input, opts |-> rn.opts, result |-> rn.result,
          outcome |-> rn.outcome, fromCache |-> rn.fromCache]
    ELSE before

\* The catch block of process
Catch(rn, e) ==
  LET msg == ProcessErrorMessage(e)
      cur == FindProcessing(rn.result.stages)
      marked == IF cur = 0 THEN rn.result.stages
                ELSE [rn.result.stages EXCEPT ![cur].status = "error",
                                              ![cur].error = msg]
  IN [rn EXCEPT !.result.errors = Append(@, msg),
                !.result.stages = marked,
                !.exc = e, !.pc = "done", !.outcome = "resolved"]

\* process from its entry to the first await: option merge, stage list,
\* cache key, cache lookup, creation of the result object
Call(r, input, o) ==
  /\ run[r].pc = "idle"
  /\ calls' = calls + 1
  /\ LET started == [IdleRun EXCEPT !.input = input, !.opts = o]
     IN IF CacheKeyThrows(input, o)
          THEN run' = [run EXCEPT ![r] =
                 [started EXCEPT !.pc = "done", !.outcome = "rejected",
                                 !.exc = ErrorExc("InvalidCharacterError")]]
          ELSE LET key == generateCacheKey(input, o)
               IN IF key \in DOMAIN cache
                    THEN \E c \in CbOutcomes(o) :
                           run' = [run EXCEPT ![r] =
                             [started EXCEPT
                                !.key = key, !.pc = "done", !.fromCache = TRUE,
                                !.events = Invoke(<<>>, o, "cache", 100),
                                !.exc = ExcOf(c),
                                !.outcome = IF c = "ok" THEN "resolved" ELSE "rejected",
                                !.result = IF c = "ok" THEN cache[key] ELSE NoResult]]
                    ELSE run' = [run EXCEPT ![r] =
                           [started EXCEPT
                              !.key = key,
                              !.pc = IF isInitialized THEN "ready" ELSE "init",
                              !.result = NewResult(input, o, initializeStages(o))]]
  /\ last' = Settle(run'[r], last)
  /\ UNCHANGED <<isInitialized, cache, fpaImage, unitVars>>

\* initialize resolves
Initialized(r) ==
  /\ run[r].pc = "init"
  /\ isInitialized' = TRUE
  /\ run' = [run EXCEPT ![r].pc = "ready"]
  /\ UNCHANGED <<cache, fpaImage, calls, last, unitVars>>

\* initialize throws (the OCR engine could not be set up)
InitializeFailed(r) ==
  /\ run[r].pc = "init"
  /\ run' = [run EXCEPT ![r] = Catch(run[r], ErrorExc("Processor initialization failed"))]
  /\ last' = Settle(run'[r], last)
  /\ UNCHANGED <<isInitialized, cache, fpaImage, calls, unitVars>>

\* executeStage up to `await execution()`: the stage is looked up and set
\* to 'processing', and the stage function makes its first progress call
StageBegin(r) ==
  LET rn == run[r]
      j == NextPos(rn)
      i == FindStage(rn.result.stages, Plan[j])
  IN /\ rn.pc = "ready"
     /\ j # 0
     /\ IF i = 0
          THEN run' = [run EXCEPT ![r].pos = j]
          ELSE \E c \in CbOutcomes(rn.opts) :
                 run' = [run EXCEPT ![r] =
                   [rn EXCEPT !.pos = j, !.pc = "running",
                              !.result.stages[i].status = "processing",
                              !.started = Append(@, Plan[j]),
                              !.events = Invoke(@, rn.opts, Plan[j], 0),
                              !.exc = ExcOf(c)]]
     /\ UNCHANGED <<isInitialized, cache, fpaImage, calls, last, unitVars>>

\* The closing progress call of a stage function
With100(base, o, name) ==
  {[base EXCEPT !.events = Invoke(@, o, name, 100), !.exc = ExcOf(c)] :
     c \in CbOutcomes(o)}

convertRooms(rooms) ==
  [from |-> rooms.from, count |-> rooms.count, fallback |-> rooms.fallback]

convertWalls(walls) ==
  [from |-> walls.from, count |-> walls.count, fallback |-> walls.fallback]

\* CvEvents with the progress scaled by 8 instead of 0.8
CvEvents_m(events, o, n) ==
  LET F[k \in 0..Len(CvProgress)] ==
        IF k = 0 THEN events
        ELSE Invoke(F[k - 1], o, "structure_generation", CvProgress[k] * 8)
  IN F[n]

\* The progress calls processFloorPlan makes before its n-th one returns
CvEvents(events, o, n) ==
  LET F[k \in 0..Len(CvProgress)] ==
        IF k = 0 THEN events
        ELSE Invoke(F[k - 1], o, "structure_generation", (CvProgress[k] * 8) \div 10)
  IN F[n]

\* The rest of a stage function after its first progress call: the set of
\* ways it can end, each with the result object, the raster held by the
\* FloorPlanAnalyzer, the callbacks made and the value thrown (if any)
Execution(rn, name, held) ==
  LET res == rn.result
      o == rn.opts
      base == [result |-> res, fpa |-> held, events |-> rn.events, exc |-> NoExc]
      img == IF ImageAtHand(res) # NoImage THEN ImageAtHand(res)
             ELSE convertInputToImageData(rn.input)
  IN CASE name = "blueprint_analysis" ->
            With100([base EXCEPT !.result.analysis = analyze(rn.input)], o, name)
       [] name = "text_filtering" ->
            UNION {With100([base EXCEPT !.result.textFilter =
                              filterText(res.analysis.processedImage, ocrOk)], o, name) :
                   ocrOk \in (IF o.enableOCR THEN BOOLEAN ELSE {TRUE})}
       [] name = "line_classification" ->
            IF img = NoImage THEN {[base EXCEPT !.exc = OtherExc]}
            ELSE With100([base EXCEPT !.result.lineClass = classifyLines(img)], o, name)
       [] name = "structure_generation" ->
            IF img = NoImage THEN {[base EXCEPT !.exc = OtherExc]}
            ELSE UNION {
                   LET now == LoadedImage(held, img)
                       cvResult == processFloorPlan(now, n = 0)
                   IN With100([base EXCEPT
                                 !.fpa = now,
                                 !.events = CvEvents(@, o, IF n = 0 THEN Len(CvProgress) ELSE n),
                                 !.result.cvFailed = cvResult.failed,
                                 !.result.rooms = convertRooms(cvResult.rooms),
                                 !.result.walls = convertWalls(cvResult.walls)], o, name) :
                   n \in (IF o.progressCallback = "faulty" THEN 0..Len(CvProgress) ELSE {0})}
       [] name = "quality_assessment" ->
            LET conf == calculateOverallConfidence(res)
                scored == [res EXCEPT !.confidence = conf]
            IN With100([base EXCEPT !.result =
                          [scored EXCEPT !.warnings = generateWarnings(scored)]], o, name)
       [] OTHER ->
            With100([base EXCEPT !.result.preview = TRUE], o, name)

\* StageFailed without the rethrow: the stage is marked and process goes on
StageFailed_m(rn, i, e) ==
  [rn EXCEPT !.result.stages[i].status = "error",
             !.result.stages[i].error = StageErrorMessage(e),
             !.exc = NoExc, !.pc = "ready"]

\* A stage function threw: the catch block of executeStage marks the stage
\* and rethrows, and the catch block of process receives the value
StageFailed(rn, i, e) ==
  Catch([rn EXCEPT !.result.stages[i].status = "error",
                   !.result.stages[i].error = StageErrorMessage(e)], e)

\* A stage function returned: the stage is 'completed' with progress 100
StageCompleted(rn, i) ==
  [rn EXCEPT !.result.stages[i].status = "completed",
             !.result.stages[i].progress = 100,
             !.pc = "ready"]

\* executeStage from the end of `await execution()`: 'completed' with
\* progress 100, or 'error' with the message and the rethrow that the
\* catch block of process receives
StageEnd(r) ==
  LET rn == run[r]
      name == Plan[rn.pos]
      i == FindStage(rn.result.stages, name)
  IN /\ rn.pc = "running"
     /\ \E out \in (IF rn.exc.thrown
                      THEN {[result |-> rn.result, fpa |-> fpaImage,
                             events |-> rn.events, exc |-> rn.exc]}
                      ELSE Execution(rn, name, fpaImage)) :
          /\ fpaImage' = out.fpa
          /\ LET after == [rn EXCEPT !.result = out.result, !.events = out.events]
             IN IF out.exc.thrown
                  THEN run' = [run EXCEPT ![r] = StageFailed(after, i, out.exc)]
                  ELSE run' = [run EXCEPT ![r] = StageCompleted(after, i)]
     /\ last' = Settle(run'[r], last)
     /\ UNCHANGED <<isInitialized, cache, calls, unitVars>>

\* After the last stage: the result is cached and returned
Finalize(r) ==
  /\ run[r].pc = "ready"
  /\ NextPos(run[r]) = 0
  /\ cache' = [k \in DOMAIN cache \cup {run[r].key} |->
                 IF k = run[r].key THEN run[r].result ELSE cache[k]]
  /\ run' = [run EXCEPT ![r].pc = "done", ![r].outcome = "resolved"]
  /\ last' = Settle(run'[r], last)
  /\ UNCHANGED <<isInitialized, fpaImage, calls, unitVars>>

\* The caller takes the settled promise; the slot is free for another call
Return(r) ==
  /\ run[r].pc = "done"
  /\ run' = [run EXCEPT ![r] = IdleRun]
  /\ UNCHANGED <<isInitialized, cache, fpaImage, calls, last, unitVars>>

clearCache ==
  /\ cache # <<>>
  /\ cache' = <<>>
  /\ last' = NoLast
  /\ UNCHANGED <<isInitialized, fpaImage, run, calls, unitVars>>

cleanup ==
  /\ isInitialized \/ cache # <<>>
  /\ cache' = <<>>
  /\ isInitialized' = FALSE
  /\ last' = NoLast
  /\ UNCHANGED <<fpaImage, run, calls, unitVars>>

(***************************************************************************)
(* Part 2: FloorPlanAnalyzer room detection                                *)
(* (src/src/utils/computerVision.ts).  detectRooms scans the grayscale     *)
(* data at every 15th pixel and flood-fills each light region it meets;    *)
(* processFloorPlan substitutes the fallback rooms and walls for empty     *)
(* lists.  Pixel coordinates are 0-based as in the code; the room          *)
(* vertices, which the code scales by 0.5 around the image centre, are     *)
(* kept in quarter pixels.                                                 *)
(***************************************************************************)

\* The rasters handed to detectRooms: width, height and the intensity the
\* red channel holds at each pixel
WhiteRaster == [name |-> "white", width |-> 175, height |-> 175]
PlanRaster == [name |-> "plan", width |-> 100, height |-> 60]
ThousandRaster == [name |-> "thousand", width |-> 40, height |-> 25]
ThousandOneRaster == [name |-> "thousandOne", width |-> 91, height |-> 11]
SmallRaster == [name |-> "small", width |-> 30, height |-> 30]
DarkRaster == [name |-> "dark", width |-> 30, height |-> 30]

CvRasters ==
  {WhiteRaster, PlanRaster, ThousandRaster, ThousandOneRaster, SmallRaster, DarkRaster}

\* true when every pixel of the raster has the same intensity
Uniform(r) == r.name \notin {"plan", "serpentine"}

\* data[(y * width + x) * 4]
Intensity(r, x, y) ==
  IF r.name = "dark" THEN 0
  ELSE IF r.name = "plan"
    THEN IF x \in {0, 50, 99} \/ y \in {0, 59} THEN 0 ELSE 255
  ELSE IF r.name = "serpentine"
    THEN IF y % 2 = 0 \/ (y % 4 = 1 /\ x = r.width - 1) \/ (y % 4 = 3 /\ x = 0)
         THEN 255 ELSE 0
  ELSE 255

RoomThreshold == 200
SampleStep == 15
MaxRooms == 20
MaxStackSize == 15000
MaxPixelCount == 50000
MinRoomPixels == 1000
MaxRoomPixels == 30000

\* visited = new Array(height).fill(null).map(() => new Array(width).fill(false))
NoneVisited(r) == [j \in 1..r.height |-> [i \in 1..r.width |-> FALSE]]

\* floodFill.  The stack is a linked list <<top, rest>> with its length in
\* depth; of the pixels collected the fill keeps what createRoomFromPixels
\* reads: their number and the extremes of their coordinates.  peak is the
\* greatest length the stack has had.
FillStart(x, y, visited) ==
  [stack |-> << <<x, y>>, <<>> >>, depth |-> 1, visited |-> visited, n |-> 0,
   minX |-> x, maxX |-> x, minY |-> y, maxY |-> y, stopped |-> FALSE,
   peak |-> 1]

FillDone(f) == f.stopped \/ f.depth = 0

Push4(s, a, b, c, d) == <<d, <<c, <<b, <<a, s>>>>>>>>

\* One iteration of the while loop of floodFill
FillStep(r, f) ==
  IF f.depth > MaxStackSize \/ f.n > MaxPixelCount THEN [f EXCEPT !.stopped = TRUE]
  ELSE
    LET top == f.stack[1]
        rest == f.stack[2]
        x == top[1]
        y == top[2]
    IN IF x < 0 \/ x >= r.width \/ y < 0 \/ y >= r.height
         THEN [f EXCEPT !.stack = rest, !.depth = f.depth - 1]
       ELSE IF f.visited[y + 1][x + 1]
         THEN [f EXCEPT !.stack = rest, !.depth = f.depth - 1]
       ELSE IF Intensity(r, x, y) <= RoomThreshold
         THEN [f EXCEPT !.stack = rest, !.depth = f.depth - 1]
       ELSE [f EXCEPT !.stack = Push4(rest, <<x + 1, y>>, <<x - 1, y>>,
                                      <<x, y + 1>>, <<x, y - 1>>),
                      !.depth = f.depth + 3,
                      !.peak = IF f.depth + 3 > f.peak THEN f.depth + 3 ELSE f.peak,
                      !.visited = [f.visited EXCEPT ![y + 1][x + 1] = TRUE],
                      !.n = f.n + 1,
                      !.minX = IF f.n = 0 \/ x < f.minX THEN x ELSE f.minX,
                      !.maxX = IF f.n = 0 \/ x > f.maxX THEN x ELSE f.maxX,
                      !.minY = IF f.n = 0 \/ y < f.minY THEN y ELSE f.minY,
                      !.maxY = IF f.n = 0 \/ y > f.maxY THEN y ELSE f.maxY]

\* The while loop: up to 2^k iterations, ended by an empty stack or a break
RECURSIVE FillRun(_, _, _)
FillRun(r, f, k) ==
  IF FillDone(f) THEN f
  ELSE IF k = 0 THEN FillStep(r, f)
  ELSE FillRun(r, FillRun(r, f, k - 1), k - 1)

\* 2^18 exceeds the pops a fill can make (4 pushes per collected pixel)
FillLog == 18

floodFill(r, x, y, visited) == FillRun(r, FillStart(x, y, visited), FillLog)

\* classifyRoom: ratio = max(width, height) / min(width, height)
classifyRoom(area, w, h) ==
  LET mx == IF w > h THEN w ELSE h
      mn == IF w > h THEN h ELSE w
  IN IF area < 2000 THEN "Bathroom"
     ELSE IF area < 5000 /\ mx > 2 * mn THEN "Hallway"
     ELSE IF area < 5000 THEN "Bedroom"
     ELSE IF area < 8000 THEN "Kitchen"
     ELSE IF area < 12000 THEN "Living Room"
     ELSE "Large Room"

\* createRoomFromPixels: the bounding box as four vertices
createRoomFromPixels(r, f, roomId) ==
  LET qx(v) == 2 * v - r.width
      qy(v) == 2 * v - r.height
  IN [id |-> roomId,
      name |-> classifyRoom(f.n, f.maxX - f.minX, f.maxY - f.minY),
      vertices |-> << <<qx(f.minX), qy(f.minY)>>, <<qx(f.maxX), qy(f.minY)>>,
                      <<qx(f.maxX), qy(f.maxY)>>, <<qx(f.minX), qy(f.maxY)>> >>,
      center |-> <<f.minX + f.maxX - r.width, f.minY + f.maxY - r.height>>,
      area |-> f.n]

\* The size test of detectRooms
RoomSizeOk_m(n) == n > 100 /\ n < MaxRoomPixels

RoomSizeOk(n) == n > MinRoomPixels /\ n < MaxRoomPixels

\* calculateConfidence, in percent
calculateConfidence(rooms, walls) ==
  Min(100, (IF rooms > 0 THEN 50 ELSE 0) + (IF walls > 0 THEN 30 ELSE 0)
           + (IF rooms > 2 THEN 10 ELSE 0) + (IF walls > 4 THEN 10 ELSE 0))

\* The walls detectWalls finds in the contours of a raster: none in a
\* uniform raster, where sobelEdgeDetection leaves every pixel 0
WallCountsOf(r) == IF Uniform(r) THEN {0} ELSE {0, 3, 5}

\* The value processFloorPlan returns from its try block
FloorPlanResult(rooms, walls) ==
  [rooms |-> IF Len(rooms) > 0
               THEN [from |-> "detected", count |-> Len(rooms), fallback |-> FALSE]
               ELSE generateFallbackRooms,
   walls |-> IF walls > 0
               THEN [from |-> "detected", count |-> walls, fallback |-> FALSE]
               ELSE generateFallbackWalls,
   confidence |-> calculateConfidence(Len(rooms), walls)]

CvIdle == [pc |-> "idle"]

\* processFloorPlan reaches detectRooms with the grayscale data of raster r
DetectRoomsBegin(r) ==
  /\ cv.pc = "idle"
  /\ cv' = [pc |-> "scan", raster |-> r, x |-> 0, y |-> 0,
            visited |-> NoneVisited(r), rooms |-> <<>>, roomCounter |-> 1]

\* The body of the inner loop at the sample (x, y), and x += 15
DetectRoomsSample ==
  /\ cv.pc = "scan"
  /\ cv.y < cv.raster.height /\ Len(cv.rooms) < MaxRooms
  /\ cv.x < cv.raster.width
  /\ IF Intensity(cv.raster, cv.x, cv.y) > RoomThreshold /\ ~cv.visited[cv.y + 1][cv.x + 1]
       THEN LET f == floodFill(cv.raster, cv.x, cv.y, cv.visited)
            IN IF RoomSizeOk(f.n)
                 THEN cv' = [cv EXCEPT !.visited = f.visited, !.x = cv.x + SampleStep,
                               !.rooms = Append(cv.rooms,
                                  createRoomFromPixels(cv.raster, f, cv.roomCounter)),
                               !.roomCounter = cv.roomCounter + 1]
                 ELSE cv' = [cv EXCEPT !.visited = f.visited, !.x = cv.x + SampleStep]
       ELSE cv' = [cv EXCEPT !.x = cv.x + SampleStep]

\* The inner loop ends: y += 15
DetectRoomsNextRow ==
  /\ cv.pc = "scan"
  /\ cv.y < cv.raster.height /\ Len(cv.rooms) < MaxRooms
  /\ cv.x >= cv.raster.width
  /\ cv' = [cv EXCEPT !.x = 0, !.y = cv.y + SampleStep]

\* The outer loop ends: detectRooms returns rooms
DetectRoomsReturn ==
  /\ cv.pc = "scan"
  /\ cv.y >= cv.raster.height \/ Len(cv.rooms) >= MaxRooms
  /\ cv' = [cv EXCEPT !.pc = "done"]

\* processFloorPlan returns
ProcessFloorPlanReturn ==
  /\ cv.pc = "done"
  /\ \E walls \in WallCountsOf(cv.raster) :
       cv' = [pc |-> "returned", raster |-> cv.raster, rooms |-> cv.rooms,
              result |-> FloorPlanResult(cv.rooms, walls)]

(***************************************************************************)
(* Part 3: contour simplification and wall extraction                      *)
(* (src/src/utils/computerVision.ts).  Points are <<x, y>> with integer    *)
(* coordinates.  Distances are kept exact as squared distances, a          *)
(* fraction <<numerator, denominator>>; indices are 1-based where the code *)
(* counts from 0.                                                          *)
(***************************************************************************)

\* pointToLineDistance, squared: to lineStart when the segment is a point or
\* param < 0, to lineEnd when param > 1, else to the foot of the
\* perpendicular, whose squared distance is (A*D - B*C)^2 / lenSq
pointToLineDistanceSq(point, lineStart, lineEnd) ==
  LET A == point[1] - lineStart[1]
      B == point[2] - lineStart[2]
      C == lineEnd[1] - lineStart[1]
      D == lineEnd[2] - lineStart[2]
      dot == A * C + B * D
      lenSq == C * C + D * D
  IN IF lenSq = 0 THEN <<A * A + B * B, 1>>
     ELSE IF dot < 0 THEN <<A * A + B * B, 1>>
     ELSE IF dot > lenSq
       THEN <<(point[1] - lineEnd[1]) * (point[1] - lineEnd[1])
              + (point[2] - lineEnd[2]) * (point[2] - lineEnd[2]), 1>>
     ELSE <<(A * D - B * C) * (A * D - B * C), lenSq>>

\* dist > maxDist and maxDist > tolerance on squared fractions
Farther(a, b) == a[1] * b[2] > b[1] * a[2]
Exceeds(d, tolerance) == d[1] > tolerance * tolerance * d[2]

\* The for loop of simplifyContour over start < i < end: the first index
\* with the greatest distance, or start when every distance is 0
RECURSIVE FarthestFrom(_, _, _, _, _)
FarthestFrom(contour, start, end, i, best) ==
  IF i >= end THEN best
  ELSE LET dist == pointToLineDistanceSq(contour[i], contour[start], contour[end])
       IN IF Farther(dist, best.maxDist)
            THEN FarthestFrom(contour, start, end, i + 1, [maxDist |-> dist, maxIndex |-> i])
            ELSE FarthestFrom(contour, start, end, i + 1, best)

Farthest(contour, start, end) ==
  FarthestFrom(contour, start, end, start + 1, [maxDist |-> <<0, 1>>, maxIndex |-> start])

\* What one iteration of the while loop appends to simplified
Emit(simplified, contour, start, end) ==
  IF start # end THEN simplified \o <<contour[start], contour[end]>>
  ELSE Append(simplified, contour[start])

\* The length test of detectWalls, on the squared length
MinWallLength == 20

WallLongEnough(lengthSq) == lengthSq > MinWallLength * MinWallLength

MinContourLength == 20
WallTolerance == 5

\* The loop of detectWalls over the consecutive pairs of simplified
RECURSIVE WallsFrom(_, _)
WallsFrom(simplified, i) ==
  IF i >= Len(simplified) THEN <<>>
  ELSE LET start == simplified[i]
           end == simplified[i + 1]
           lengthSq == (end[1] - start[1]) * (end[1] - start[1])
                       + (end[2] - start[2]) * (end[2] - start[2])
       IN (IF WallLongEnough(lengthSq)
             THEN <<[start |-> start, end |-> end, lengthSq |-> lengthSq]>>
             ELSE <<>>) \o WallsFrom(simplified, i + 1)

\* Input contours.  LinePoints lie on the line x = 2y.
LinePoints == {<<0, 0>>, <<4, 2>>, <<8, 4>>, <<10, 5>>}
SquarePoints == {<<0, 0>>, <<0, 10>>, <<10, 10>>}

SeqsOver(S, n) == [1..n -> S]

CollinearContours == SeqsOver(LinePoints, 2) \cup SeqsOver(LinePoints, 3)
CornerContours == SeqsOver(SquarePoints, 3) \cup SeqsOver(SquarePoints, 4)

\* a straight run of 26 pixels; 20 pixels of a run shorter than a wall; 19
\* pixels; 20 points that go round the corners of a triangle with sides
\* longer than a wall; the outline of a small square, pixel by pixel
StraightContour == [i \in 1..26 |-> <<i - 1, 0>>]
ShortRunContour == [i \in 1..20 |-> <<i - 1, 3>>]
TinyContour == [i \in 1..19 |-> <<2 * (i - 1), 0>>]
TriangleCorner(i) == IF i % 3 = 1 THEN <<0, 0>> ELSE IF i % 3 = 2 THEN <<21, 0>> ELSE <<0, 21>>
RoundContour == [i \in 1..20 |-> TriangleCorner(i)]
BoxContour ==
  [i \in 1..24 |-> IF i <= 6 THEN <<i - 1, 0>>
                   ELSE IF i <= 12 THEN <<6, i - 7>>
                   ELSE IF i <= 18 THEN <<18 - i, 6>>
                   ELSE <<0, 24 - i>>]
LongBoxContour ==
  [i \in 1..24 |-> IF i <= 6 THEN <<5 * (i - 1), 0>>
                   ELSE IF i <= 12 THEN <<30, 5 * (i - 7)>>
                   ELSE IF i <= 18 THEN <<5 * (18 - i), 30>>
                   ELSE <<0, 5 * (24 - i)>>]

WallContours ==
  {StraightContour, ShortRunContour, TinyContour, RoundContour, BoxContour, LongBoxContour}

Tolerances == {0, 1, 5}

DpIdle == [pc |-> "idle"]

\* simplifyContour is entered: contours of at most 2 points are returned
\* as they are
Simplifying(purpose, pass, input, contour, tolerance, first) ==
  IF Len(contour) <= 2
    THEN [pc |-> "simplified", purpose |-> purpose, pass |-> pass, input |-> input,
          contour |-> contour, tolerance |-> tolerance, stack |-> <<>>,
          simplified |-> contour, first |-> first]
    ELSE [pc |-> "simplify", purpose |-> purpose, pass |-> pass, input |-> input,
          contour |-> contour, tolerance |-> tolerance,
          stack |-> <<[start |-> 1, end |-> Len(contour)]>>,
          simplified |-> <<>>, first |-> first]

\* simplifyContour(contour, tolerance) is called
SimplifyCall(contour, tolerance) ==
  /\ dp.pc = "idle"
  /\ dp' = Simplifying("simplify", 1, contour, contour, tolerance, <<>>)

\* One iteration of the while loop of simplifyContour
SimplifyStep ==
  /\ dp.pc = "simplify"
  /\ dp.stack # <<>>
  /\ LET top == dp.stack[Len(dp.stack)]
         rest == SubSeq(dp.stack, 1, Len(dp.stack) - 1)
         far == Farthest(dp.contour, top.start, top.end)
     IN IF Exceeds(far.maxDist, dp.tolerance)
          THEN dp' = [dp EXCEPT !.stack = rest \o <<[start |-> top.start, end |-> far.maxIndex],
                                                     [start |-> far.maxIndex, end |-> top.end]>>]
          ELSE dp' = [dp EXCEPT !.stack = rest,
                                !.simplified = Emit(dp.simplified, dp.contour, top.start, top.end)]

\* The stack is empty: simplifyContour returns simplified
SimplifyReturn ==
  /\ dp.pc = "simplify"
  /\ dp.stack = <<>>
  /\ dp' = [dp EXCEPT !.pc = "simplified"]

\* The caller hands the result to simplifyContour again, same tolerance
SimplifyAgain ==
  /\ dp.pc = "simplified"
  /\ dp.purpose = "simplify"
  /\ dp.pass = 1
  /\ dp' = Simplifying("simplify", 2, dp.input, dp.simplified, dp.tolerance, dp.simplified)

\* detectWalls takes up a contour: short contours are skipped
DetectWallsCall(contour) ==
  /\ dp.pc = "idle"
  /\ IF Len(contour) < MinContourLength
       THEN dp' = [pc |-> "walls", purpose |-> "walls", input |-> contour,
                   simplified |-> <<>>, skipped |-> TRUE, walls |-> <<>>]
       ELSE dp' = Simplifying("walls", 1, contour, contour, WallTolerance, <<>>)

\* The walls of the simplified contour
DetectWallsReturn ==
  /\ dp.pc = "simplified"
  /\ dp.purpose = "walls"
  /\ dp' = [pc |-> "walls", purpose |-> "walls", input |-> dp.input,
            simplified |-> dp.simplified, skipped |-> FALSE,
            walls |-> WallsFrom(dp.simplified, 1)]

(***************************************************************************)
(* Part 4: LineClassifier.classifyLines (src/src/utils/lineClassifier.ts). *)
(* Confidences and straightness are percentages, angles are in             *)
(* milliradians.  A raw line is described by what extractLineFeatures      *)
(* measures on it.                                                         *)
(***************************************************************************)
MaxLines == 5

\* Raw lines: a thick long straight horizontal line, a thin short one
\* parallel to it, a crooked vertical one, and an object without end points
ThickLine == [wellFormed |-> TRUE, thickness |-> 4, length |-> 60, straightness |-> 100,
              style |-> "solid", angle |-> 0]
ThinLine == [wellFormed |-> TRUE, thickness |-> 1, length |-> 22, straightness |-> 100,
             style |-> "solid", angle |-> 0]
CrookedLine == [wellFormed |-> TRUE, thickness |-> 3, length |-> 55, straightness |-> 60,
                style |-> "dashed", angle |-> 1571]
BrokenLine == [wellFormed |-> FALSE, thickness |-> 0, length |-> 0, straightness |-> 0,
               style |-> "solid", angle |-> 0]

RawLines == {ThickLine, ThinLine, CrookedLine, BrokenLine}

\* Raw lines for the context analysis: thin lines drawn to the right, to
\* the left (atan2 gives pi) and to the left and slightly upwards in the
\* image (atan2 gives just above -pi), and the thick line
LeftLine == [ThinLine EXCEPT !.angle = 3142]
LeftUpLine == [ThinLine EXCEPT !.angle = -3122]
ContextLines == {ThickLine, ThinLine, LeftLine, LeftUpLine}

\* Raw lines for the heuristic rules: a thin dotted line parallel to the
\* thin solid one, next to the thick, the thin and the dashed crooked line
DottedLine == [ThinLine EXCEPT !.style = "dotted"]
HeuristicLines == {ThickLine, ThinLine, CrookedLine, DottedLine}

\* No model, a model whose predict throws, and a model that predicts
HeuristicModels == {"none", "failing", "sharp"}

\* The option sets for the context analysis: the default filter
ContextOptionSets ==
  [enableMLClassification : BOOLEAN, useContextAnalysis : BOOLEAN,
   minLineLength : {10}, confidenceThreshold : {50}]

\* ClassificationOptions after the defaults are merged in
LcOptionSets ==
  [enableMLClassification : BOOLEAN, useContextAnalysis : BOOLEAN,
   minLineLength : {10, 30}, confidenceThreshold : {50, 70, 90}]

\* The model held by the classifier: none (isModelLoaded false), or one of
\* two networks, given by the type and confidence they predict for a line
LcModels == {"none", "flat", "sharp"}

Predict(model, line) ==
  IF model = "flat" THEN [type |-> "unknown", confidence |-> 40]
  ELSE IF line.thickness > 3 THEN [type |-> "wall", confidence |-> 100]
  ELSE IF line.thickness > 2 THEN [type |-> "annotation", confidence |-> 10]
  ELSE [type |-> "unknown", confidence |-> 95]

\* extractLineFeatures with a text found next to every line
extractLineFeatures_m(rawLines) ==
  [k \in 1..Len(rawLines) |->
     [id |-> k - 1, type |-> "unknown", style |-> rawLines[k].style,
      thickness |-> rawLines[k].thickness, confidence |-> 0,
      length |-> rawLines[k].length, angle |-> rawLines[k].angle,
      features |-> [thickness |-> rawLines[k].thickness, style |-> rawLines[k].style,
                    straightness |-> rawLines[k].straightness,
                    parallelLines |-> 0, perpendicularLines |-> 0,
                    nearbyText |-> TRUE, nearbySymbols |-> FALSE]]]

\* extractLineFeatures: the Line built for the i-th raw line (i from 0)
extractLineFeatures(rawLines) ==
  [k \in 1..Len(rawLines) |->
     [id |-> k - 1, type |-> "unknown", style |-> rawLines[k].style,
      thickness |-> rawLines[k].thickness, confidence |-> 0,
      length |-> rawLines[k].length, angle |-> rawLines[k].angle,
      features |-> [thickness |-> rawLines[k].thickness, style |-> rawLines[k].style,
                    straightness |-> rawLines[k].straightness,
                    parallelLines |-> 0, perpendicularLines |-> 0,
                    nearbyText |-> FALSE, nearbySymbols |-> FALSE]]]

\* classifyWithHeuristics, for one line
Heuristic(line) ==
  IF line.thickness > 2 /\ line.length > 50 /\ line.features.straightness > 80
    THEN [line EXCEPT !.type = "wall", !.confidence = 80]
  ELSE IF line.features.style = "dashed" /\ line.features.nearbyText
    THEN [line EXCEPT !.type = "dimension", !.confidence = 70]
  ELSE IF line.thickness < 2 /\ line.features.nearbyText
    THEN [line EXCEPT !.type = "annotation", !.confidence = 60]
  ELSE IF line.features.style = "dotted" /\ line.features.parallelLines > 2
    THEN [line EXCEPT !.type = "grid_line", !.confidence = 70]
  ELSE [line EXCEPT !.type = "unknown", !.confidence = 50]

classifyWithHeuristics(lines) == [k \in 1..Len(lines) |-> Heuristic(lines[k])]

\* classifyWithML: the predictions of the model; when predict throws
\* ("failing") the catch block answers with the heuristics
classifyWithML(model, lines) ==
  IF model = "failing" THEN classifyWithHeuristics(lines)
  ELSE [k \in 1..Len(lines) |->
          [lines[k] EXCEPT !.type = Predict(model, lines[k]).type,
                           !.confidence = Predict(model, lines[k]).confidence]]

Abs(n) == IF n < 0 THEN -n ELSE n

Pi == 3142
AngleSlack == 100

Parallel_m(a, b) ==
  LET angleDiff == Abs(a - b)
  IN angleDiff < AngleSlack

Parallel(a, b) ==
  LET angleDiff == Abs(a - b)
  IN angleDiff < AngleSlack \/ Abs(angleDiff - Pi) < AngleSlack

Perpendicular(a, b) ==
  LET angleDiff == Abs(a - b)
  IN Abs(angleDiff - 1571) < AngleSlack \/ Abs(angleDiff - 4712) < AngleSlack

ContextBoost == 20
ContextCap == 90
ContextParallels == 3

\* applyContextAnalysis: the pair counts, then UNKNOWN lines with more than
\* 3 parallel lines become walls
applyContextAnalysis(lines) ==
  [k \in 1..Len(lines) |->
     LET par == Cardinality({j \in 1..Len(lines) :
                               j # k /\ Parallel(lines[k].angle, lines[j].angle)})
         perp == Cardinality({j \in 1..Len(lines) :
                                j # k /\ Perpendicular(lines[k].angle, lines[j].angle)})
         counted == [lines[k] EXCEPT !.features.parallelLines = @ + par,
                                     !.features.perpendicularLines = @ + perp]
     IN IF counted.features.parallelLines > ContextParallels /\ counted.type = "unknown"
          THEN [counted EXCEPT !.type = "wall",
                               !.confidence = Min(ContextCap, @ + ContextBoost)]
          ELSE counted]

\* The test of the final filter
Kept_m(line, opts) ==
  line.confidence > opts.confidenceThreshold /\ line.length >= opts.minLineLength

Kept(line, opts) ==
  line.confidence >= opts.confidenceThreshold /\ line.length >= opts.minLineLength

\* Array.prototype.filter
RECURSIVE FilterLines(_, _)
FilterLines(lines, opts) ==
  IF lines = <<>> THEN <<>>
  ELSE (IF Kept(Head(lines), opts) THEN <<Head(lines)>> ELSE <<>>)
       \o FilterLines(Tail(lines), opts)

RECURSIVE SumConfidence(_)
SumConfidence(lines) ==
  IF lines = <<>> THEN 0 ELSE Head(lines).confidence + SumConfidence(Tail(lines))

\* LineClassifier.calculateOverallConfidence (the average, rounded down)
lcOverallConfidence(lines) ==
  IF Len(lines) = 0 THEN 0 ELSE SumConfidence(lines) \div Len(lines)

LcIdle == [pc |-> "collect", rawLines |-> <<>>]

\* One more line is among the detected lines
LineDetected(raw) ==
  /\ lcRun.pc = "collect"
  /\ Len(lcRun.rawLines) < MaxLines
  /\ lcRun' = [lcRun EXCEPT !.rawLines = Append(@, raw)]

\* classifyLines up to the classification; an object without end points
\* makes extractLineFeatures throw, and the catch block answers
Classify(opts, model) ==
  /\ lcRun.pc = "collect"
  /\ IF \E k \in 1..Len(lcRun.rawLines) : ~lcRun.rawLines[k].wellFormed
       THEN lcRun' = [pc |-> "returned", rawLines |-> lcRun.rawLines, opts |-> opts,
                   model |-> model, classified |-> <<>>, failed |-> TRUE,
                   lines |-> <<>>, confidence |-> 0]
       ELSE lcRun' = [pc |-> "classified", rawLines |-> lcRun.rawLines, opts |-> opts,
                   model |-> model, failed |-> FALSE,
                   classified |->
                     IF opts.enableMLClassification /\ model # "none"
                       THEN classifyWithML(model, extractLineFeatures(lcRun.rawLines))
                       ELSE classifyWithHeuristics(extractLineFeatures(lcRun.rawLines))]

\* Context analysis when enabled, the final filter, and the return
FilterAndReturn ==
  /\ lcRun.pc = "classified"
  /\ LET classifiedLines == IF lcRun.opts.useContextAnalysis
                              THEN applyContextAnalysis(lcRun.classified)
                              ELSE lcRun.classified
         filteredLines == FilterLines(classifiedLines, lcRun.opts)
     IN lcRun' = [pc |-> "returned", rawLines |-> lcRun.rawLines, opts |-> lcRun.opts,
               model |-> lcRun.model, classified |-> classifiedLines, failed |-> FALSE,
               lines |-> filteredLines,
               confidence |-> lcOverallConfidence(filteredLines)]

(***************************************************************************)
(* Part 5: ScaleCalibrator (scaleCalibrator.ts).  A blueprint raster is a  *)
(* white sheet with black bars; a text region is the bounding box and the  *)
(* characters an OCR pass delivered.  Lengths in real units are exact      *)
(* fractions <<numerator, denominator>>, confidences are percentages.      *)
(***************************************************************************)

DarkThreshold == 100
RowStep == 5
MinRun == 20
MinBarLength == 50
MaxBarLength == 500
NearbyRadius == 30
ParseConfidence == 80
MockDimensionLength == 50
GroupTolerance == 15
StandardTolerance == 10
LowScaleConfidence == 70
ManyScales == 3

commonRatios == <<20, 50, 100, 200, 500>>

ScIntensity(img, x, y) ==
  IF \E k \in 1..Len(img.bars) :
       /\ x >= img.bars[k].x /\ x < img.bars[k].x + img.bars[k].length
       /\ y >= img.bars[k].y /\ y < img.bars[k].y + img.bars[k].thickness
  THEN 0 ELSE 255

\* One turn of the inner loop of findHorizontalLines at column x; s holds
\* lineStart, lineLength and the lines pushed so far.
ScanPixel(img, y, x, s) ==
  IF ScIntensity(img, x, y) < DarkThreshold
  THEN [s EXCEPT !.lineStart = IF s.lineStart = -1 THEN x ELSE s.lineStart,
                 !.lineLength = s.lineLength + 1]
  ELSE [lineStart |-> -1, lineLength |-> 0,
        lines |-> IF s.lineStart # -1 /\ s.lineLength > MinRun
                  THEN Append(s.lines, [startX |-> s.lineStart, endX |-> x - 1,
                                        y |-> y, length |-> s.lineLength])
                  ELSE s.lines]

\* The turns for columns x .. x + n - 1, in order.  The state after the first
\* half is bound as a value before the second half reads it.
RECURSIVE ScanSpan(_, _, _, _, _)
ScanSpan(img, y, x, n, s) ==
  IF n = 0 THEN s
  ELSE IF n = 1 THEN ScanPixel(img, y, x, s)
  ELSE LET h == n \div 2
       IN  CHOOSE r \in {ScanSpan(img, y, x + h, n - h, mid) :
                           mid \in {ScanSpan(img, y, x, h, s)}} : TRUE

\* One turn of the outer loop: the row y, and the run that reaches the right
\* edge of the image
ScanRow(img, y, lines) ==
  CHOOSE r \in
    {IF s.lineStart # -1 /\ s.lineLength > MinRun
     THEN Append(s.lines, [startX |-> s.lineStart, endX |-> img.width - 1,
                           y |-> y, length |-> s.lineLength])
     ELSE s.lines :
       s \in {ScanSpan(img, y, 0, img.width,
                        [lineStart |-> -1, lineLength |-> 0, lines |-> lines])}} : TRUE

RECURSIVE ScanRows(_, _, _)
ScanRows(img, y, lines) ==
  IF y >= img.height THEN lines
  ELSE CHOOSE r \in {ScanRows(img, y + RowStep, next) :
                        next \in {ScanRow(img, y, lines)}} : TRUE

findHorizontalLines(img) ==
  SelectSeq(ScanRows(img, 0, <<>>),
            LAMBDA line : line.length > MinBarLength /\ line.length < MaxBarLength)

\* Distances are compared on doubled coordinates, so that the half pixels of
\* the two centres stay integers.
IsNearby(line, text, radius) ==
  LET dx == (2 * text.bbox.x + text.bbox.width) - (line.startX + line.endX)
      dy == (2 * text.bbox.y + text.bbox.height) - 2 * line.y
  IN  dx * dx + dy * dy <= 4 * radius * radius

findNearbyText(line, textRegions, radius) ==
  SelectSeq(textRegions, LAMBDA text : IsNearby(line, text, radius))

Digits == {"0", "1", "2", "3", "4", "5", "6", "7", "8", "9"}

DigitVal(c) ==
  CASE c = "0" -> 0 [] c = "1" -> 1 [] c = "2" -> 2 [] c = "3" -> 3
    [] c = "4" -> 4 [] c = "5" -> 5 [] c = "6" -> 6 [] c = "7" -> 7
    [] c = "8" -> 8 [] c = "9" -> 9

Lower(c) ==
  CASE c = "M" -> "m" [] c = "C" -> "c" [] c = "F" -> "f" [] c = "T" -> "t"
    [] c = "I" -> "i" [] c = "N" -> "n" [] OTHER -> c

toLowerCase(s) == [i \in 1..Len(s) |-> Lower(s[i])]

RECURSIVE trim(_)
trim(s) ==
  IF s = <<>> THEN s
  ELSE IF Head(s) = " " THEN trim(Tail(s))
  ELSE IF s[Len(s)] = " " THEN trim(SubSeq(s, 1, Len(s) - 1))
  ELSE s

RECURSIVE DigitsEnd(_, _)
DigitsEnd(s, i) ==
  IF i + 1 <= Len(s) /\ s[i + 1] \in Digits THEN DigitsEnd(s, i + 1) ELSE i

RECURSIVE NumVal(_, _, _)
NumVal(s, i, j) ==
  IF j < i THEN 0 ELSE 10 * NumVal(s, i, j - 1) + DigitVal(s[j])

RECURSIVE Pow(_, _)
Pow(b, n) == IF n = 0 THEN 1 ELSE b * Pow(b, n - 1)

RECURSIVE SkipSpaces(_, _)
SkipSpaces(s, i) ==
  IF i <= Len(s) /\ s[i] = " " THEN SkipSpaces(s, i + 1) ELSE i

StartsWith(s, i, w) ==
  i + Len(w) - 1 <= Len(s) /\ SubSeq(s, i, i + Len(w) - 1) = w

Includes(s, w) == \E i \in 1..Len(s) : StartsWith(s, i, w)

\* The alternatives of the unit group, in the order the pattern tries them;
\* an optional plural letter does not change what parseUnit makes of the word.
UnitWords ==
  << <<"m">>, <<"m", "e", "t", "e", "r">>, <<"f", "t">>, <<"f", "e", "e", "t">>,
     <<"i", "n">>, <<"i", "n", "c", "h", "e">>, <<"c", "m">>,
     <<"c", "e", "n", "t", "i", "m", "e", "t", "e", "r">>, <<"m", "m">>,
     <<"m", "i", "l", "l", "i", "m", "e", "t", "e", "r">> >>

MetricWords == << <<"m", "m">>, <<"c", "m">> >>

FirstWord(s, i, words) ==
  LET K == {k \in 1..Len(words) : StartsWith(s, i, words[k])}
  IN  IF K = {} THEN <<>> ELSE words[CHOOSE k \in K : \A j \in K : k <= j]

parseUnit(unitStr) ==
  LET clean == trim(toLowerCase(unitStr))
  IN  IF Includes(clean, <<"m", "m">>)
         \/ Includes(clean, <<"m", "i", "l", "l", "i", "m", "e", "t", "e", "r">>)
      THEN "mm"
      ELSE IF Includes(clean, <<"c", "m">>)
              \/ Includes(clean, <<"c", "e", "n", "t", "i", "m", "e", "t", "e", "r">>)
      THEN "cm"
      ELSE IF Includes(clean, <<"m">>) THEN "m"
      ELSE IF Includes(clean, <<"i", "n">>) \/ Includes(clean, <<"\"">>) THEN "in"
      ELSE IF Includes(clean, <<"f", "t">>) \/ Includes(clean, <<"f", "e", "e", "t">>)
              \/ Includes(clean, <<"'">>)
      THEN "ft"
      ELSE IF Includes(clean, <<"y", "d">>) THEN "yd"
      ELSE "m"

NoMatch == [ok |-> FALSE]

\* /(\d+(?:\.\d+)?)\s*(m|meters?|ft|...)/ anchored at position i
UnitMatchAt(s, i, words, fraction) ==
  IF s[i] \notin Digits THEN NoMatch
  ELSE LET j == DigitsEnd(s, i)
           hasFraction == /\ fraction /\ j + 2 <= Len(s)
                          /\ s[j + 1] = "." /\ s[j + 2] \in Digits
           k == IF hasFraction THEN DigitsEnd(s, j + 2) ELSE j
           den == IF hasFraction THEN Pow(10, k - j - 1) ELSE 1
           num == IF hasFraction
                  THEN NumVal(s, i, j) * den + NumVal(s, j + 2, k)
                  ELSE NumVal(s, i, j)
           word == FirstWord(s, SkipSpaces(s, k + 1), words)
       IN  IF word = <<>> THEN NoMatch
           ELSE [ok |-> TRUE, length |-> <<num, den>>, unit |-> parseUnit(word)]

\* /(\d+)['′]\s*(?:(\d+)["″])?/ anchored at position i: the second group
\* holds digits only, so parseUnit falls through to its default
FeetMatchAt(s, i) ==
  IF s[i] \notin Digits THEN NoMatch
  ELSE LET j == DigitsEnd(s, i)
       IN  IF j + 1 <= Len(s) /\ s[j + 1] = "'"
           THEN LET p == SkipSpaces(s, j + 2)
                    inches == IF p <= Len(s) /\ s[p] \in Digits
                                 /\ DigitsEnd(s, p) + 1 <= Len(s)
                                 /\ s[DigitsEnd(s, p) + 1] = "\""
                              THEN SubSeq(s, p, DigitsEnd(s, p)) ELSE <<>>
                IN  [ok |-> TRUE, length |-> <<NumVal(s, i, j), 1>>,
                     unit |-> parseUnit(inches)]
           ELSE NoMatch

\* String.match: of the matches anchored at each position, the leftmost
Leftmost(matches) ==
  LET I == {i \in 1..Len(matches) : matches[i].ok}
  IN  IF I = {} THEN NoMatch ELSE matches[CHOOSE i \in I : \A j \in I : i <= j]

ScalePatterns(s) ==
  << Leftmost([i \in 1..Len(s) |-> UnitMatchAt(s, i, UnitWords, TRUE)]),
     Leftmost([i \in 1..Len(s) |-> FeetMatchAt(s, i)]),
     Leftmost([i \in 1..Len(s) |-> UnitMatchAt(s, i, MetricWords, FALSE)]) >>

\* The loop over the patterns: the first pattern that matches with a length
\* above zero returns
FirstScale(matches) ==
  LET P == {p \in 1..Len(matches) : matches[p].ok /\ matches[p].length[1] > 0}
  IN  IF P = {} THEN NoMatch
      ELSE LET m == matches[CHOOSE p \in P : \A q \in P : p <= q]
           IN  [ok |-> TRUE, length |-> m.length, unit |-> m.unit,
                confidence |-> ParseConfidence]

parseScaleText(text) == FirstScale(ScalePatterns(toLowerCase(trim(text))))

\* if (scaleInfo) scaleBars.push({...})
BarRef(line, scaleInfo) ==
  IF scaleInfo.ok
  THEN << [type |-> "scale_bar", pixelLength |-> line.length,
           realLength |-> scaleInfo.length, unit |-> scaleInfo.unit,
           confidence |-> scaleInfo.confidence] >>
  ELSE <<>>

RECURSIVE BarRefs(_, _)
BarRefs(line, texts) ==
  IF texts = <<>> THEN <<>>
  ELSE BarRef(line, parseScaleText(Head(texts).text)) \o BarRefs(line, Tail(texts))

RECURSIVE ScaleBarsOf(_, _)
ScaleBarsOf(lines, textRegions) ==
  IF lines = <<>> THEN <<>>
  ELSE BarRefs(Head(lines), findNearbyText(Head(lines), textRegions, NearbyRadius))
       \o ScaleBarsOf(Tail(lines), textRegions)

detectScaleBars(img, textRegions) ==
  ScaleBarsOf(findHorizontalLines(img), textRegions)

findDimensionLine(text) == [length |-> MockDimensionLength]

\* if (dimensionInfo) dimensions.push({...}), for a text with isDimension
Dimension(text, dimensionInfo) ==
  IF dimensionInfo.ok
  THEN << [value |-> dimensionInfo.length, unit |-> dimensionInfo.unit,
           pixelLength |-> findDimensionLine(text).length,
           confidence |-> dimensionInfo.confidence] >>
  ELSE <<>>

RECURSIVE detectDimensions(_)
detectDimensions(textRegions) ==
  IF textRegions = <<>> THEN <<>>
  ELSE (IF Head(textRegions).isDimension
        THEN Dimension(Head(textRegions), parseScaleText(Head(textRegions).text))
        ELSE <<>>) \o detectDimensions(Tail(textRegions))

dimensionsToScaleReferences(dimensions) ==
  [k \in 1..Len(dimensions) |->
     [type |-> "dimension", pixelLength |-> dimensions[k].pixelLength,
      realLength |-> dimensions[k].value, unit |-> dimensions[k].unit,
      confidence |-> dimensions[k].confidence]]

detectGridSpacing(img) == 0

detectGridReferences(img) ==
  IF detectGridSpacing(img) > 0
  THEN << [type |-> "grid", pixelLength |-> detectGridSpacing(img),
           realLength |-> <<1, 1>>, unit |-> "m", confidence |-> 60] >>
  ELSE <<>>

RECURSIVE GCD(_, _)
GCD(a, b) == IF b = 0 THEN a ELSE GCD(b, a % b)

Reduce(q) == LET g == GCD(q[1], q[2]) IN <<q[1] \div g, q[2] \div g>>

\* |ratio - target| / target < percent / 100
Within(ratio, target, percent) ==
  100 * Abs(ratio[1] * target[2] - target[1] * ratio[2])
    < percent * target[1] * ratio[2]

determineScaleType(ratio, unit) ==
  IF unit \in {"ft", "in"} THEN "imperial"
  ELSE IF unit \in {"m", "cm"}
  THEN IF \E k \in 1..Len(commonRatios) :
            Within(ratio, <<commonRatios[k], 1>>, StandardTolerance)
       THEN "architectural" ELSE "metric"
  ELSE "custom"

RECURSIVE ScalesOf(_)
ScalesOf(references) ==
  IF references = <<>> THEN <<>>
  ELSE LET ref == Head(references)
           ratio == Reduce(<<ref.pixelLength * ref.realLength[2], ref.realLength[1]>>)
       IN  (IF ref.pixelLength > 0 /\ ref.realLength[1] > 0
            THEN << [ratio |-> ratio, unit |-> ref.unit,
                     type |-> determineScaleType(ratio, ref.unit),
                     confidence |-> ref.confidence, references |-> 1] >>
            ELSE <<>>) \o ScalesOf(Tail(references))

Merge(group, scale) ==
  [group EXCEPT
     !.ratio = Reduce(<<group.ratio[1] * group.references * scale.ratio[2]
                          + scale.ratio[1] * scale.references * group.ratio[2],
                        group.ratio[2] * scale.ratio[2]
                          * (group.references + scale.references)>>),
     !.confidence = IF scale.confidence > group.confidence
                    THEN scale.confidence ELSE group.confidence,
     !.references = group.references + scale.references]

RECURSIVE groupSimilarScales(_, _)
groupSimilarScales(scales, grouped) ==
  IF scales = <<>> THEN grouped
  ELSE LET scale == Head(scales)
           G == {g \in 1..Len(grouped) :
                   /\ Within(scale.ratio, grouped[g].ratio, GroupTolerance)
                   /\ scale.unit = grouped[g].unit}
       IN  groupSimilarScales(Tail(scales),
             IF G = {} THEN Append(grouped, scale)
             ELSE LET g == CHOOSE h \in G : \A j \in G : h <= j
                  IN  [grouped EXCEPT ![g] = Merge(grouped[g], scale)])

calculatePossibleScales(references, opts) ==
  SelectSeq(groupSimilarScales(ScalesOf(references), <<>>),
            LAMBDA scale : scale.confidence >= opts.minConfidence)

\* confidence * log(references + 1), compared without logarithms: every
\* confidence the code assigns is a whole number of tenths
Outranks(a, b) ==
  Pow(a.references + 1, a.confidence \div 10) > Pow(b.references + 1, b.confidence \div 10)

\* the stable descending sort of selectBestScale
RECURSIVE SortScales(_)
SortScales(scales) ==
  IF scales = <<>> THEN <<>>
  ELSE LET B == {k \in 1..Len(scales) : \A j \in 1..Len(scales) : ~Outranks(scales[j], scales[k])}
           b == CHOOSE k \in B : \A j \in B : k <= j
       IN  <<scales[b]>> \o SortScales(SubSeq(scales, 1, b - 1) \o SubSeq(scales, b + 1, Len(scales)))

selectBestScale(scales, opts) ==
  LET sorted == SortScales(scales)
      byUnit == SelectSeq(sorted, LAMBDA s : s.unit = opts.expectedUnit)
      byType == SelectSeq(sorted, LAMBDA s : s.type = opts.expectedScaleType)
  IN  IF opts.expectedUnit # "none" /\ byUnit # <<>> THEN byUnit[1]
      ELSE IF opts.expectedScaleType # "none" /\ byType # <<>> THEN byType[1]
      ELSE sorted[1]

NoScale == [ratio |-> <<0, 1>>, unit |-> "none", type |-> "none",
            confidence |-> 0, references |-> 0]

scGenerateWarnings(result, opts) ==
  (IF Len(result.scaleReferences) = 0 THEN <<"no_references">> ELSE <<>>)
  \o (IF Len(result.possibleScales) = 0 THEN <<"no_scales">> ELSE <<>>)
  \o (IF result.detectedScale # NoScale /\ result.detectedScale.confidence < LowScaleConfidence
      THEN <<"low_confidence">> ELSE <<>>)
  \o (IF Len(result.possibleScales) > ManyScales THEN <<"ambiguous">> ELSE <<>>)
  \o (IF Len(result.dimensions) = 0 /\ opts.searchForDimensions
      THEN <<"no_dimensions">> ELSE <<>>)

\* The result as calibrate declares it, and the steps that fill it in
EmptyCalibration ==
  [detectedScale |-> NoScale, possibleScales |-> <<>>, dimensions |-> <<>>,
   scaleReferences |-> <<>>, confidence |-> 0, warnings |-> <<>>]

SearchForScaleBars(result, img, textRegions, opts) ==
  IF opts.searchForScaleBars
  THEN [result EXCEPT !.scaleReferences = @ \o detectScaleBars(img, textRegions)]
  ELSE result

DimensionsFound(result, dimensions) ==
  [result EXCEPT !.dimensions = dimensions,
                 !.scaleReferences = @ \o dimensionsToScaleReferences(dimensions)]

SearchForDimensions(result, textRegions, opts) ==
  IF opts.searchForDimensions
  THEN DimensionsFound(result, detectDimensions(textRegions))
  ELSE result

SearchForGrids(result, img, opts) ==
  IF opts.searchForGrids
  THEN [result EXCEPT !.scaleReferences = @ \o detectGridReferences(img)]
  ELSE result

WithPossibleScales(result, opts) ==
  [result EXCEPT !.possibleScales = calculatePossibleScales(result.scaleReferences, opts)]

ScaleSelected(result, detectedScale) ==
  [result EXCEPT !.detectedScale = detectedScale,
                 !.confidence = detectedScale.confidence]

WithBestScale(result, opts) ==
  IF Len(result.possibleScales) > 0
  THEN ScaleSelected(result, selectBestScale(result.possibleScales, opts))
  ELSE result

WithWarnings(result, opts) ==
  [result EXCEPT !.warnings = scGenerateWarnings(result, opts)]

calibrate(img, textRegions, opts) ==
  WithWarnings(
    WithBestScale(
      WithPossibleScales(
        SearchForGrids(
          SearchForDimensions(
            SearchForScaleBars(EmptyCalibration, img, textRegions, opts),
            textRegions, opts),
          img, opts),
        opts),
      opts),
    opts)

\* Inputs: one black bar on a sheet, one text region placed against it.
SheetWidth == 140
SheetHeight == 40
TextWidth == 16
TextHeight == 10
TextGap == 1

Bars ==
  [x : {20}, y : {20, 22}, length : {100, 40}, thickness : {1, 11}]

Sheet(bar) == [width |-> SheetWidth, height |-> SheetHeight, bars |-> <<bar>>]

Placements ==
  {"above_start", "above_middle", "above_end",
   "below_start", "below_middle", "below_end", "left", "right"}

\* the bounding box of a text region that touches the bar on the given side
BoxAt(bar, place) ==
  LET atStart == bar.x
      atMiddle == bar.x + bar.length \div 2 - TextWidth \div 2
      atEnd == bar.x + bar.length - TextWidth
      over == bar.y - TextGap - TextHeight
      under == bar.y + bar.thickness + TextGap
      beside == bar.y + bar.thickness \div 2 - TextHeight \div 2
  IN  CASE place = "above_start" -> [x |-> atStart, y |-> over]
        [] place = "above_middle" -> [x |-> atMiddle, y |-> over]
        [] place = "above_end" -> [x |-> atEnd, y |-> over]
        [] place = "below_start" -> [x |-> atStart, y |-> under]
        [] place = "below_middle" -> [x |-> atMiddle, y |-> under]
        [] place = "below_end" -> [x |-> atEnd, y |-> under]
        [] place = "left" -> [x |-> bar.x - TextGap - TextWidth, y |-> beside]
        [] place = "right" -> [x |-> bar.x + bar.length + TextGap, y |-> beside]

Adjacent(bar, box) == \E place \in Placements : box = BoxAt(bar, place)

FiveMetres == <<"5", "m">>

ScaleTexts ==
  { FiveMetres, <<" ", "2", ".", "5", " ", "M">>, <<"1", "0", "f", "t">>,
    <<"0", "m", " ", "5", "c", "m">>, <<"1", "0", "'">>, <<"N">> }

TextAt(bar, place, text, isDimension) ==
  [bbox |-> [x |-> BoxAt(bar, place).x, y |-> BoxAt(bar, place).y,
             width |-> TextWidth, height |-> TextHeight],
   text |-> text, isDimension |-> isDimension]

DefaultCalibration ==
  [searchForScaleBars |-> TRUE, searchForDimensions |-> TRUE,
   searchForGrids |-> TRUE, minConfidence |-> 50,
   expectedUnit |-> "none", expectedScaleType |-> "none"]

CalibrationOptions ==
  { DefaultCalibration,
    [DefaultCalibration EXCEPT !.searchForScaleBars = FALSE],
    [DefaultCalibration EXCEPT !.searchForDimensions = FALSE, !.minConfidence = 90] }

ScIdle == [pc |-> "idle"]

Calibrate(bar, place, text, isDimension, opts) ==
  /\ sc.pc = "idle"
  /\ sc' = [pc |-> "returned", bar |-> bar, imageData |-> Sheet(bar),
            textRegions |-> <<TextAt(bar, place, text, isDimension)>>,
            opts |-> opts,
            result |-> calibrate(Sheet(bar),
                                 <<TextAt(bar, place, text, isDimension)>>, opts)]

CalibrateAgain ==
  /\ sc.pc = "returned"
  /\ sc' = ScIdle

\* Scale texts for parseScaleText alone: a number, an optional space and a
\* unit word, or feet with a mark and optional inches.  Each text comes with
\* the length and the unit that it writes.
NumberTexts ==
  { [chars |-> <<"5">>, value |-> <<5, 1>>],
    [chars |-> <<"1", "0">>, value |-> <<10, 1>>],
    [chars |-> <<"5", "0">>, value |-> <<50, 1>>],
    [chars |-> <<"1", "0", "0", "0">>, value |-> <<1000, 1>>],
    [chars |-> <<"2", ".", "5">>, value |-> <<25, 10>>] }

UnitTexts ==
  { [chars |-> <<"m">>, unit |-> "m"],
    [chars |-> <<"m", "e", "t", "e", "r", "s">>, unit |-> "m"],
    [chars |-> <<"f", "t">>, unit |-> "ft"],
    [chars |-> <<"f", "e", "e", "t">>, unit |-> "ft"],
    [chars |-> <<"i", "n">>, unit |-> "in"],
    [chars |-> <<"i", "n", "c", "h", "e", "s">>, unit |-> "in"],
    [chars |-> <<"c", "m">>, unit |-> "cm"],
    [chars |-> <<"c", "e", "n", "t", "i", "m", "e", "t", "e", "r", "s">>, unit |-> "cm"],
    [chars |-> <<"m", "m">>, unit |-> "mm"],
    [chars |-> <<"m", "i", "l", "l", "i", "m", "e", "t", "e", "r", "s">>, unit |-> "mm"] }

\* 10', 5'-6", 5'6" and 5' 6": the inches add twelfths of a foot
FeetMarks ==
  { [chars |-> <<"'">>, twelfths |-> 0],
    [chars |-> <<"'", "-", "6", "\"">>, twelfths |-> 6],
    [chars |-> <<"'", "6", "\"">>, twelfths |-> 6],
    [chars |-> <<"'", " ", "6", "\"">>, twelfths |-> 6] }

WrittenTexts ==
  { [text |-> n.chars \o gap \o u.chars, length |-> n.value, unit |-> u.unit] :
      n \in NumberTexts, gap \in {<<>>, <<" ">>}, u \in UnitTexts }
  \cup
  { [text |-> n.chars \o f.chars,
     length |-> <<12 * n.value[1] + f.twelfths, 12>>, unit |-> "ft"] :
      n \in {m \in NumberTexts : m.value[2] = 1}, f \in FeetMarks }

\* parseScaleText(text) is called on a text
ParseScaleText(written) ==
  /\ sc.pc = "idle"
  /\ sc' = [pc |-> "parsed", written |-> written,
            parsed |-> parseScaleText(written.text)]

\* the caller goes on to its next text
ParseReturn ==
  /\ sc.pc = "parsed"
  /\ sc' = ScIdle

(***************************************************************************)
(* Part 6: PerformanceManager (scaleCalibrator.ts), the result cache kept  *)
(* in localStorage.  Times are milliseconds since the first call.          *)
(***************************************************************************)

MAX_CACHE_SIZE == 10
CACHE_EXPIRY == 24 * 60 * 60 * 1000

\* Bounds of the cache model: the half days that pass, and the results of
\* the second image that are stored at a time.
MaxHalfDays == 2
MaxOtherStored == 1

HalfDay == 12 * 60 * 60 * 1000

CachedImages == {"A", "B"}

\* The calls the model makes: any number for the first image, and for the
\* second image while fewer than MaxOtherStored of its results are stored
Stored(store, imageData) ==
  Cardinality({k \in 1..Len(store) : store[k].imageData = imageData})

Callable(imageData) ==
  imageData = "A" \/ Stored(pm.store, imageData) < MaxOtherStored

NoEntry == [imageData |-> "none", processedData |-> <<>>, timestamp |-> -1]

\* Date.now() - entry.timestamp < this.CACHE_EXPIRY
Fresh_m(entry, now) == now - entry.timestamp <= CACHE_EXPIRY

Fresh(entry, now) == now - entry.timestamp < CACHE_EXPIRY

\* validEntries.sort((a, b) => b.timestamp - a.timestamp): stable, newest first
RECURSIVE SortNewestFirst(_)
SortNewestFirst(entries) ==
  IF entries = <<>> THEN <<>>
  ELSE LET B == {k \in 1..Len(entries) :
                   \A j \in 1..Len(entries) : entries[j].timestamp <= entries[k].timestamp}
           b == CHOOSE k \in B : \A j \in B : k <= j
       IN  <<entries[b]>>
           \o SortNewestFirst(SubSeq(entries, 1, b - 1) \o SubSeq(entries, b + 1, Len(entries)))

PmIdle ==
  [store |-> <<>>, now |-> 0, op |-> "none", image |-> "none", found |-> NoEntry]

\* cacheResult(imageData, processedData); the processed data are told apart
\* by the image and the time of the processing
cacheResult(imageData) ==
  /\ Callable(imageData)
  /\ LET newEntry == [imageData |-> imageData,
                      processedData |-> <<imageData, pm.now>>,
                      timestamp |-> pm.now]
         validEntries == SelectSeq(pm.store, LAMBDA entry : Fresh(entry, pm.now))
         sorted == SortNewestFirst(Append(validEntries, newEntry))
         trimmedCache == Slice(sorted, 0, MAX_CACHE_SIZE)
     IN  pm' = [pm EXCEPT !.store = trimmedCache, !.op = "cacheResult",
                          !.image = imageData, !.found = NoEntry]

\* localStorage.setItem throws (quota): the catch only warns
cacheResultFailed(imageData) ==
  /\ Callable(imageData)
  /\ pm' = [pm EXCEPT !.op = "cacheResultFailed", !.image = imageData,
                      !.found = NoEntry]

\* cache.find(...): the first entry of the image that has not expired
Find(store, imageData, now) ==
  LET K == {k \in 1..Len(store) :
              store[k].imageData = imageData /\ Fresh(store[k], now)}
  IN  IF K = {} THEN NoEntry ELSE store[CHOOSE k \in K : \A j \in K : k <= j]

getCachedResult(imageData) ==
  pm' = [pm EXCEPT !.op = "getCachedResult", !.image = imageData,
                   !.found = Find(pm.store, imageData, pm.now)]

pmClearCache ==
  pm' = [pm EXCEPT !.store = <<>>, !.op = "clearCache", !.image = "none",
                   !.found = NoEntry]

\* Half a day passes between two calls
TimePasses ==
  /\ pm.now < MaxHalfDays * HalfDay
  /\ pm' = [pm EXCEPT !.now = @ + HalfDay, !.op = "none", !.image = "none",
                      !.found = NoEntry]

(***************************************************************************)
(* Part 7: the ImageProcessor component, in its two versions: the one that *)
(* calls FloorPlanAnalyzer.processFloorPlan (components/ImageProcessor.tsx)*)
(* and the one that calls UniversalProcessor.process (the unnamed          *)
(* component).  Both fall back to fallbackProcessing from the catch block  *)
(* of processImage.  Confidences are percentages.                          *)
(***************************************************************************)

\* Bound: the calls of processImage on one mounted component
MaxRuns == 3

Versions == {"analyzer", "universal"}

Room(id, name, vertices, center) ==
  [id |-> id, name |-> name, vertices |-> vertices, center |-> center]

\* The rooms and walls that fallbackProcessing makes up
FallbackRooms ==
  << Room("room1", "Living Room", << <<-50, -30>>, <<50, -30>>, <<50, 30>>, <<-50, 30>> >>, <<0, 0>>),
     Room("room2", "Kitchen", << <<50, -30>>, <<100, -30>>, <<100, 10>>, <<50, 10>> >>, <<75, -10>>),
     Room("room3", "Bedroom", << <<-50, 30>>, <<20, 30>>, <<20, 70>>, <<-50, 70>> >>, <<-15, 50>>),
     Room("room4", "Bathroom", << <<20, 30>>, <<50, 30>>, <<50, 70>>, <<20, 70>> >>, <<35, 50>>) >>

FallbackWalls ==
  << << <<-50, -30>>, <<50, -30>> >>, << <<50, -30>>, <<100, -30>> >>,
     << <<100, -30>>, <<100, 10>> >>, << <<100, 10>>, <<50, 10>> >>,
     << <<50, 10>>, <<50, 30>> >>, << <<50, 30>>, <<20, 30>> >>,
     << <<20, 30>>, <<-50, 30>> >>, << <<-50, 30>>, <<-50, 70>> >>,
     << <<-50, 70>>, <<50, 70>> >>, << <<50, 70>>, <<50, 30>> >> >>

FallbackConfidence == 60

\* The rooms and walls of FloorPlanAnalyzer.generateFallbackRooms / Walls
AnalyzerRooms == SubSeq(FallbackRooms, 1, FallbackRoomCount)

AnalyzerWalls ==
  SubSeq(FallbackWalls, 1, FallbackWallCount - 1)
    \o << << <<-50, 30>>, <<-50, -30>> >> >>

\* A room and a wall as the detection makes them
DetectedRooms ==
  << Room("room_0", "Living Room", << <<0, 0>>, <<40, 0>>, <<40, 30>>, <<0, 30>> >>, <<20, 15>>) >>

DetectedWalls == << << <<0, 0>>, <<40, 0>> >> >>

\* What the try block of processImage can obtain.  processFloorPlan catches
\* its own errors: an image that cannot be decoded gives its fallback rooms
\* with confidence 0.3.  UniversalProcessor.process resolves only for an
\* image that can be decoded.
TryResults(version, decodable) ==
  IF version = "analyzer"
  THEN IF decodable
       THEN {[rooms |-> DetectedRooms, walls |-> DetectedWalls, confidence |-> 80],
             [rooms |-> AnalyzerRooms, walls |-> AnalyzerWalls, confidence |-> 0]}
       ELSE {[rooms |-> AnalyzerRooms, walls |-> AnalyzerWalls, confidence |-> 30]}
  ELSE IF decodable
       THEN {[rooms |-> DetectedRooms, walls |-> DetectedWalls, confidence |-> 70],
             [rooms |-> AnalyzerRooms, walls |-> AnalyzerWalls, confidence |-> 65]}
       ELSE {}

\* The try block of the second version can throw before it has a result:
\* initialize or process rejects
ThrowsEarly(version, decodable) ==
  IF version = "universal" THEN IF decodable THEN BOOLEAN ELSE {TRUE} ELSE {FALSE}

\* The progress that fallbackProcessing shows, in order
FallbackProgress == <<20, 60, 80>>

IpIdle ==
  [pc |-> "idle", version |-> "analyzer", decodable |-> TRUE, confidence |-> 0,
   handed |-> <<>>, fellBack |-> FALSE, progress |-> 0, runs |-> 0]

\* processImage is called through the ref, for the image uploaded last
ProcessImage(version, decodable) ==
  /\ ip.pc \in {"idle", "done"}
  /\ ip.runs < MaxRuns
  /\ ip.runs > 0 => version = ip.version
  /\ ip' = [ip EXCEPT !.pc = "trying", !.version = version, !.decodable = decodable,
                      !.handed = <<>>, !.fellBack = FALSE, !.progress = 0,
                      !.runs = @ + 1]

\* The try block obtains a result, sets the confidence and hands the
\* converted data to onProcessComplete, which returns or throws
TryHands(handlerThrows) ==
  /\ ip.pc = "trying"
  /\ \E result \in TryResults(ip.version, ip.decodable) :
       ip' = [ip EXCEPT !.confidence = result.confidence,
                        !.handed = Append(@, [rooms |-> result.rooms,
                                              walls |-> result.walls]),
                        !.pc = IF handlerThrows THEN "caught" ELSE "done"]

\* initialize or process rejects: the catch block of processImage
TryThrows ==
  /\ ip.pc = "trying"
  /\ TRUE \in ThrowsEarly(ip.version, ip.decodable)
  /\ ip' = [ip EXCEPT !.pc = "caught"]

\* fallbackProcessing: img.onload fires (there is no onerror handler)
FallbackImageLoads ==
  /\ ip.pc = "caught"
  /\ ip.decodable
  /\ ip' = [ip EXCEPT !.pc = "fallback", !.fellBack = TRUE,
                      !.progress = FallbackProgress[1]]

\* the timers between the steps that fallbackProcessing shows
FallbackStep ==
  /\ ip.pc = "fallback"
  /\ \E k \in 1..(Len(FallbackProgress) - 1) :
       /\ ip.progress = FallbackProgress[k]
       /\ ip' = [ip EXCEPT !.progress = FallbackProgress[k + 1]]

\* setConfidence(0.6), then the made-up layout goes to onProcessComplete;
\* when that throws, the promise of fallbackProcessing is never resolved
FallbackHands(handlerThrows) ==
  /\ ip.pc = "fallback"
  /\ ip.progress = FallbackProgress[Len(FallbackProgress)]
  /\ ip' = [ip EXCEPT !.confidence = FallbackConfidence,
                      !.progress = 100,
                      !.handed = Append(@, [rooms |-> FallbackRooms,
                                            walls |-> FallbackWalls]),
                      !.pc = IF handlerThrows THEN "pending" ELSE "done"]

(***************************************************************************)
(* Part 8: the two bounded traversals of FloorPlanAnalyzer, traceContour   *)
(* and floodFill (src/src/utils/computerVision.ts), each called on a       *)
(* raster from a seed with nothing visited.                                *)
(***************************************************************************)

ContourThreshold == 128
MaxTraceStack == 10000
MaxContourSize == 5000

\* const directions = [...], as <<dx, dy>>
directions ==
  << <<-1, -1>>, <<-1, 0>>, <<-1, 1>>, <<0, -1>>,
     <<0, 1>>, <<1, -1>>, <<1, 0>>, <<1, 1>> >>

\* traceContour, kept like the fill: the stack as a linked list with its
\* length in depth, the contour by its length n, and the greatest length the
\* stack has had in peak
TraceStart(x, y, visited) ==
  [stack |-> << <<x, y>>, <<>> >>, depth |-> 1, visited |-> visited, n |-> 0,
   stopped |-> FALSE, peak |-> 1]

\* for (const [dx, dy] of directions): the neighbours from the k-th on
RECURSIVE PushNeighbours(_, _, _, _, _, _)
PushNeighbours(r, visited, x, y, k, s) ==
  IF k > Len(directions) THEN s
  ELSE LET nx == x + directions[k][1]
           ny == y + directions[k][2]
       IN  PushNeighbours(r, visited, x, y, k + 1,
             IF /\ nx >= 0 /\ nx < r.width /\ ny >= 0 /\ ny < r.height
                /\ ~visited[ny + 1][nx + 1]
                /\ Intensity(r, nx, ny) > ContourThreshold
             THEN [stack |-> <<<<nx, ny>>, s.stack>>, depth |-> s.depth + 1]
             ELSE s)

\* visited[y][x] = true; contour.push({x, y}); then the neighbours
TraceVisit(f, visited, pushed) ==
  [f EXCEPT !.stack = pushed.stack, !.depth = pushed.depth,
            !.peak = IF pushed.depth > f.peak THEN pushed.depth ELSE f.peak,
            !.visited = visited, !.n = f.n + 1]

\* One iteration of the while loop of traceContour
TraceStep(r, f) ==
  IF f.depth > MaxTraceStack \/ f.n > MaxContourSize THEN [f EXCEPT !.stopped = TRUE]
  ELSE
    LET rest == f.stack[2]
        x == f.stack[1][1]
        y == f.stack[1][2]
    IN IF x < 0 \/ x >= r.width \/ y < 0 \/ y >= r.height
         THEN [f EXCEPT !.stack = rest, !.depth = f.depth - 1]
       ELSE IF f.visited[y + 1][x + 1]
         THEN [f EXCEPT !.stack = rest, !.depth = f.depth - 1]
       ELSE IF Intensity(r, x, y) <= ContourThreshold
         THEN [f EXCEPT !.stack = rest, !.depth = f.depth - 1]
       ELSE TraceVisit(f, [f.visited EXCEPT ![y + 1][x + 1] = TRUE],
                       PushNeighbours(r, [f.visited EXCEPT ![y + 1][x + 1] = TRUE],
                                      x, y, 1,
                                      [stack |-> rest, depth |-> f.depth - 1]))

\* The while loop: up to 2^k iterations, ended by an empty stack or a break
RECURSIVE TraceRun(_, _, _)
TraceRun(r, f, k) ==
  IF FillDone(f) THEN f
  ELSE IF k = 0 THEN TraceStep(r, f)
  ELSE TraceRun(r, TraceRun(r, f, k - 1), k - 1)

\* 2^16 exceeds the pops a trace can make (8 pushes per contour point)
TraceLog == 16

traceContour(r, x, y, visited) == TraceRun(r, TraceStart(x, y, visited), TraceLog)

\* Rasters of the traversals: at most 800 pixels a side, as processFloorPlan
\* scales them
BlockRaster == [name |-> "block", width |-> 60, height |-> 60]
SerpentineRaster == [name |-> "serpentine", width |-> 800, height |-> 14]

TvRasters ==
  {WhiteRaster, PlanRaster, SmallRaster, DarkRaster, BlockRaster, SerpentineRaster}

\* The samples of findContours (every 8th pixel) and of detectRooms (every
\* 15th): of each axis the first three and the last
ContourStep == 8

Samples(size, step) ==
  {v \in {0, step, 2 * step, ((size - 1) \div step) * step} : v < size}

TvSeeds(r, step) == Samples(r.width, step) \X Samples(r.height, step)

\* What a caller can see of a traversal: what it returned and what it left
Outcome(f) ==
  [n |-> f.n, stopped |-> f.stopped, left |-> f.depth, peak |-> f.peak]

TvIdle == [pc |-> "idle"]

\* findContours calls traceContour at a sample brighter than the threshold
TraceContourCall(r, seed) ==
  /\ tv.pc = "idle"
  /\ Intensity(r, seed[1], seed[2]) > ContourThreshold
  /\ tv' = [pc |-> "returned", fn |-> "traceContour", raster |-> r, seed |-> seed,
            out |-> Outcome(traceContour(r, seed[1], seed[2], NoneVisited(r)))]

\* detectRooms calls floodFill at a sample brighter than its threshold
FloodFillCall(r, seed) ==
  /\ tv.pc = "idle"
  /\ Intensity(r, seed[1], seed[2]) > RoomThreshold
  /\ tv' = [pc |-> "returned", fn |-> "floodFill", raster |-> r, seed |-> seed,
            out |-> Outcome(floodFill(r, seed[1], seed[2], NoneVisited(r)))]

\* the caller goes on to its next sample
TraversalReturn ==
  /\ tv.pc = "returned"
  /\ tv' = TvIdle

(***************************************************************************)
(* Part 9: UndoRedoManager (scaleCalibrator.ts) and the handlers of        *)
(* FloorPlanConverter that use it (FloorPlanConverter.tsx).  The manager   *)
(* is static: its two stacks outlive the component's state.  A saved state *)
(* holds the rooms and the walls; its timestamp is never read.             *)
(***************************************************************************)
MAX_HISTORY == 20
MaxEdits == 3

NoData == [present |-> FALSE, rooms |-> <<>>, walls |-> <<>>]
Null == [isNull |-> TRUE]

\* JSON.parse(JSON.stringify(rooms)): a new array of new objects with the
\* own enumerable properties, here the id and the colour strings
CloneRooms(rooms) ==
  [k \in 1..Len(rooms) |-> [id |-> rooms[k].id, color |-> rooms[k].color]]

\* JSON.parse(JSON.stringify(walls)): walls are arrays of points
CloneWalls(walls) == [k \in 1..Len(walls) |-> walls[k]]

UndoRedoState(rooms, walls) ==
  [isNull |-> FALSE, rooms |-> CloneRooms(rooms), walls |-> CloneWalls(walls)]

\* Array.prototype.shift when the stack has grown past MAX_HISTORY
Limited(stack) == IF Len(stack) > MAX_HISTORY THEN Tail(stack) ELSE stack

\* saveState without the limit on the history
saveState_m(m, rooms, walls) ==
  [m EXCEPT !.undoStack = Append(@, UndoRedoState(rooms, walls)),
            !.redoStack = <<>>, !.op = "saveState"]

\* UndoRedoManager.saveState
saveState(m, rooms, walls) ==
  [m EXCEPT !.undoStack = Limited(Append(@, UndoRedoState(rooms, walls))),
            !.redoStack = <<>>, !.op = "saveState"]

\* UndoRedoManager.undo: the manager afterwards
undo(m) ==
  IF Len(m.undoStack) = 0 THEN [m EXCEPT !.op = "undo"]
  ELSE [m EXCEPT !.undoStack = SubSeq(@, 1, Len(@) - 1),
                 !.redoStack = Append(@, m.undoStack[Len(m.undoStack)]),
                 !.op = "undo"]

\* UndoRedoManager.undo: the value returned
undoReturns(m) ==
  IF Len(m.undoStack) > 1 THEN m.undoStack[Len(m.undoStack) - 1] ELSE Null

\* UndoRedoManager.redo: the manager afterwards
redo(m) ==
  IF Len(m.redoStack) = 0 THEN [m EXCEPT !.op = "redo"]
  ELSE [m EXCEPT !.redoStack = SubSeq(@, 1, Len(@) - 1),
                 !.undoStack = Append(@, m.redoStack[Len(m.redoStack)]),
                 !.op = "redo"]

\* UndoRedoManager.redo: the value returned
redoReturns(m) ==
  IF Len(m.redoStack) = 0 THEN Null ELSE m.redoStack[Len(m.redoStack)]

canUndo(m) == Len(m.undoStack) > 0
canRedo(m) == Len(m.redoStack) > 0

clearHistory(m) == [m EXCEPT !.undoStack = <<>>, !.redoStack = <<>>, !.op = "clearHistory"]

\* The rooms and walls that ImageProcessor delivers for the plan
Colors == {"red", "blue"}
RoomIds == {"room_1", "room_2"}
PlanRooms == <<[id |-> "room_1", color |-> "red"], [id |-> "room_2", color |-> "blue"]>>
PlanWalls == <<"wall_1">>
PlanData == [present |-> TRUE, rooms |-> PlanRooms, walls |-> PlanWalls]

\* step, data: currentStep and processedData of the component; undoStack,
\* redoStack: the manager.  History: op is the manager's latest call, edits
\* counts the colour changes since the last reset, phase tells whether the
\* latest handlers were a colour change ("changed"), a colour change and an
\* undo ("undone"), or a colour change, an undo and a redo ("redone"); prior
\* and changed are the data before and after that colour change, first tells
\* that it was the first edit after processing.
UrIdle ==
  [step |-> "upload", data |-> NoData, undoStack |-> <<>>, redoStack |-> <<>>,
   op |-> "none", edits |-> 0, phase |-> "none", prior |-> NoData,
   changed |-> NoData, first |-> FALSE]

Forget(u) == [u EXCEPT !.phase = "none", !.prior = NoData, !.changed = NoData,
                       !.first = FALSE]

\* Direct calls of the manager
SaveStateCall(rooms, walls) ==
  /\ ur.step = "upload"
  /\ ur' = saveState(ur, rooms, walls)

UndoCall ==
  /\ ur.step = "upload"
  /\ ur' = undo(ur)

RedoCall ==
  /\ ur.step = "upload"
  /\ ur' = redo(ur)

ClearHistoryCall ==
  /\ ur.step = "upload"
  /\ ur' = clearHistory(ur)

\* handleImageUpload
ImageUpload ==
  /\ ur.step = "upload"
  /\ ur' = Forget([ur EXCEPT !.step = "process", !.data = NoData])

\* handleProcessComplete
ProcessComplete(data) ==
  /\ ur.step = "process"
  /\ ur' = Forget([(IF ur.data.present
                      THEN saveState(ur, ur.data.rooms, ur.data.walls) ELSE ur)
                   EXCEPT !.data = data, !.step = "view"])

\* rooms.map(room => room.id === roomId ? { ...room, color } : room)
Recolor(rooms, roomId, color) ==
  [k \in 1..Len(rooms) |->
     IF rooms[k].id = roomId THEN [rooms[k] EXCEPT !.color = color] ELSE rooms[k]]

\* handleRoomColorChange
RoomColorChange(roomId, color) ==
  /\ ur.step = "view"
  /\ ur.data.present
  /\ ur.edits < MaxEdits
  /\ ur' = [saveState(ur, ur.data.rooms, ur.data.walls) EXCEPT
              !.data.rooms = Recolor(ur.data.rooms, roomId, color),
              !.edits = ur.edits + 1,
              !.phase = "changed",
              !.prior = ur.data,
              !.changed = [ur.data EXCEPT !.rooms = Recolor(ur.data.rooms, roomId, color)],
              !.first = (ur.edits = 0)]

\* The data after handleUndo / handleRedo got `state` from the manager
Restored(data, state) ==
  IF ~state.isNull /\ data.present
    THEN [data EXCEPT !.rooms = state.rooms, !.walls = state.walls]
    ELSE data

\* handleUndo (the button is disabled while canUndo() is false)
Undo ==
  /\ ur.step = "view"
  /\ canUndo(ur)
  /\ ur' = [undo(ur) EXCEPT
              !.data = Restored(ur.data, undoReturns(ur)),
              !.phase = IF ur.phase = "changed" THEN "undone" ELSE "none",
              !.prior = IF ur.phase = "changed" THEN ur.prior ELSE NoData,
              !.changed = IF ur.phase = "changed" THEN ur.changed ELSE NoData,
              !.first = ur.phase = "changed" /\ ur.first]

\* handleRedo (the button is disabled while canRedo() is false)
Redo ==
  /\ ur.step = "view"
  /\ canRedo(ur)
  /\ ur' = [redo(ur) EXCEPT
              !.data = Restored(ur.data, redoReturns(ur)),
              !.phase = IF ur.phase = "undone" THEN "redone" ELSE "none",
              !.prior = IF ur.phase = "undone" THEN ur.prior ELSE NoData,
              !.changed = IF ur.phase = "undone" THEN ur.changed ELSE NoData,
              !.first = ur.phase = "undone" /\ ur.first]

\* handleReset
Reset ==
  /\ ur.step \in {"process", "view"}
  /\ ur' = [UrIdle EXCEPT !.op = "clearHistory"]

(***************************************************************************)
(* Specifications                                                          *)
(***************************************************************************)

UnitsIdle == cv = CvIdle /\ dp = DpIdle /\ lcRun = LcIdle /\ sc = ScIdle /\ pm = PmIdle /\ ip = IpIdle /\ tv = TvIdle /\ ur = UrIdle

Init ==
  /\ UnitsIdle
  /\ isInitialized = FALSE
  /\ cache = <<>>
  /\ fpaImage = NoImage
  /\ run = [r \in Slots |-> IdleRun]
  /\ calls = 0
  /\ last = NoLast

NoneInFlight == \A s \in Slots : run[s].pc = "idle"

AllOn == MkOptions(TRUE, TRUE, TRUE, "faulty")
AllOff == MkOptions(FALSE, FALSE, FALSE, "reliable")

\* The option sets of the callers that call more than once
RepeatOptionSets == {AllOn, AllOff}

\* Spec: one processor, a caller that awaits each call before it makes the
\* next, and clearCache / cleanup at any moment
Next ==
  \/ \E input \in Inputs, o \in RepeatOptionSets :
       NoneInFlight /\ calls < MaxCalls /\ Call(1, input, o)
  \/ Initialized(1)
  \/ InitializeFailed(1)
  \/ StageBegin(1)
  \/ StageEnd(1)
  \/ Finalize(1)
  \/ Return(1)
  \/ clearCache
  \/ cleanup

Spec == Init /\ [][Next]_vars

\* SpecRun: a single call with any input and any option set, on a processor
\* with an empty cache that may have served earlier calls
HeldImages ==
  {NoImage} \cup {[src |-> s, cleaned |-> c] : s \in {"A", "B"}, c \in BOOLEAN}

InitRun ==
  /\ UnitsIdle
  /\ isInitialized \in BOOLEAN
  /\ cache = <<>>
  /\ fpaImage \in {h \in HeldImages : h.cleaned => TextRegionsIn(h.src) > 0}
  /\ run = [r \in Slots |-> IdleRun]
  /\ calls = 0
  /\ last = NoLast

NextRun ==
  \/ \E input \in Inputs, o \in OptionSets : calls = 0 /\ Call(1, input, o)
  \/ Initialized(1)
  \/ InitializeFailed(1)
  \/ StageBegin(1)
  \/ StageEnd(1)
  \/ Finalize(1)

SpecRun == InitRun /\ [][NextRun]_vars

\* SpecOverlap: callers that do not await; a call may begin while earlier
\* calls are suspended at an await
NextOverlap ==
  \E r \in Slots :
    \/ \E input \in {PngA, PngB}, o \in {AllOff} :
         /\ \A s \in 1..(r - 1) : run[s].pc # "idle"
         /\ Call(r, input, o)
    \/ Initialized(r)
    \/ InitializeFailed(r)
    \/ StageBegin(r)
    \/ StageEnd(r)
    \/ Finalize(r)

SpecOverlap == Init /\ [][NextOverlap]_vars

\* SpecCv: room detection on one raster, then the return of processFloorPlan
NextCv ==
  \/ \E r \in CvRasters : DetectRoomsBegin(r) /\ UNCHANGED <<procVars, dp, lcRun, sc, pm, ip, tv, ur>>
  \/ DetectRoomsSample /\ UNCHANGED <<procVars, dp, lcRun, sc, pm, ip, tv, ur>>
  \/ DetectRoomsNextRow /\ UNCHANGED <<procVars, dp, lcRun, sc, pm, ip, tv, ur>>
  \/ DetectRoomsReturn /\ UNCHANGED <<procVars, dp, lcRun, sc, pm, ip, tv, ur>>
  \/ ProcessFloorPlanReturn /\ UNCHANGED <<procVars, dp, lcRun, sc, pm, ip, tv, ur>>

SpecCv == Init /\ [][NextCv]_vars

\* SpecDp: simplifyContour on a contour, and again on its result; detectWalls
\* on a contour
NextDp ==
  \/ \E c \in CollinearContours \cup CornerContours, t \in Tolerances :
       SimplifyCall(c, t) /\ UNCHANGED <<procVars, cv, lcRun, sc, pm, ip, tv, ur>>
  \/ SimplifyStep /\ UNCHANGED <<procVars, cv, lcRun, sc, pm, ip, tv, ur>>
  \/ SimplifyReturn /\ UNCHANGED <<procVars, cv, lcRun, sc, pm, ip, tv, ur>>
  \/ SimplifyAgain /\ UNCHANGED <<procVars, cv, lcRun, sc, pm, ip, tv, ur>>
  \/ \E c \in WallContours : DetectWallsCall(c) /\ UNCHANGED <<procVars, cv, lcRun, sc, pm, ip, tv, ur>>
  \/ DetectWallsReturn /\ UNCHANGED <<procVars, cv, lcRun, sc, pm, ip, tv, ur>>

SpecDp == Init /\ [][NextDp]_vars

\* SpecLc: classifyLines on up to MaxLines detected lines
NextLc ==
  \/ \E raw \in RawLines : LineDetected(raw) /\ UNCHANGED <<procVars, cv, dp, sc, pm, ip, tv, ur>>
  \/ \E opts \in LcOptionSets, model \in LcModels :
       Classify(opts, model) /\ UNCHANGED <<procVars, cv, dp, sc, pm, ip, tv, ur>>
  \/ FilterAndReturn /\ UNCHANGED <<procVars, cv, dp, sc, pm, ip, tv, ur>>

SpecLc == Init /\ [][NextLc]_vars

\* SpecSc: calibrate on a sheet with one bar and one text region against it
NextSc ==
  \/ \E bar \in Bars, place \in Placements, text \in ScaleTexts,
         isDimension \in BOOLEAN, opts \in CalibrationOptions :
       Calibrate(bar, place, text, isDimension, opts)
         /\ UNCHANGED <<procVars, cv, dp, lcRun, pm, ip, tv, ur>>
  \/ CalibrateAgain /\ UNCHANGED <<procVars, cv, dp, lcRun, pm, ip, tv, ur>>

SpecSc == Init /\ [][NextSc]_vars

\* SpecPm: any sequence of cacheResult, getCachedResult and clearCache calls,
\* with time passing between them
NextPm ==
  \/ \E image \in CachedImages :
       cacheResult(image) /\ UNCHANGED <<procVars, cv, dp, lcRun, sc, ip, tv, ur>>
  \/ \E image \in CachedImages :
       cacheResultFailed(image) /\ UNCHANGED <<procVars, cv, dp, lcRun, sc, ip, tv, ur>>
  \/ \E image \in CachedImages :
       getCachedResult(image) /\ UNCHANGED <<procVars, cv, dp, lcRun, sc, ip, tv, ur>>
  \/ pmClearCache /\ UNCHANGED <<procVars, cv, dp, lcRun, sc, ip, tv, ur>>
  \/ TimePasses /\ UNCHANGED <<procVars, cv, dp, lcRun, sc, ip, tv, ur>>

SpecPm == Init /\ [][NextPm]_vars

\* SpecIp: calls of processImage on one component; the timers and the load
\* event of a decodable image fire in the end
NextIp ==
  \/ \E version \in Versions, decodable \in BOOLEAN :
       ProcessImage(version, decodable) /\ UNCHANGED <<procVars, cv, dp, lcRun, sc, pm, tv, ur>>
  \/ \E handlerThrows \in BOOLEAN :
       TryHands(handlerThrows) /\ UNCHANGED <<procVars, cv, dp, lcRun, sc, pm, tv, ur>>
  \/ TryThrows /\ UNCHANGED <<procVars, cv, dp, lcRun, sc, pm, tv, ur>>
  \/ FallbackImageLoads /\ UNCHANGED <<procVars, cv, dp, lcRun, sc, pm, tv, ur>>
  \/ FallbackStep /\ UNCHANGED <<procVars, cv, dp, lcRun, sc, pm, tv, ur>>
  \/ \E handlerThrows \in BOOLEAN :
       FallbackHands(handlerThrows) /\ UNCHANGED <<procVars, cv, dp, lcRun, sc, pm, tv, ur>>

SpecIp == Init /\ [][NextIp]_vars /\ WF_vars(NextIp)

\* SpecTv: calls of traceContour and of floodFill on a raster from a sample
NextTv ==
  \/ \E r \in TvRasters : \E seed \in TvSeeds(r, ContourStep) :
       TraceContourCall(r, seed) /\ UNCHANGED <<procVars, cv, dp, lcRun, sc, pm, ip, ur>>
  \/ \E r \in TvRasters : \E seed \in TvSeeds(r, SampleStep) :
       FloodFillCall(r, seed) /\ UNCHANGED <<procVars, cv, dp, lcRun, sc, pm, ip, ur>>
  \/ TraversalReturn /\ UNCHANGED <<procVars, cv, dp, lcRun, sc, pm, ip, ur>>

SpecTv == Init /\ [][NextTv]_vars

\* SpecCx: classifyLines on up to MaxLines thin and thick lines of several
\* directions, with and without the context analysis
NextCx ==
  \/ \E raw \in ContextLines :
       LineDetected(raw) /\ UNCHANGED <<procVars, cv, dp, sc, pm, ip, tv, ur>>
  \/ \E opts \in ContextOptionSets, model \in LcModels :
       Classify(opts, model) /\ UNCHANGED <<procVars, cv, dp, sc, pm, ip, tv, ur>>
  \/ FilterAndReturn /\ UNCHANGED <<procVars, cv, dp, sc, pm, ip, tv, ur>>

SpecCx == Init /\ [][NextCx]_vars

\* SpecPs: parseScaleText on one scale text after another
NextPs ==
  \/ \E written \in WrittenTexts :
       ParseScaleText(written) /\ UNCHANGED <<procVars, cv, dp, lcRun, pm, ip, tv, ur>>
  \/ ParseReturn /\ UNCHANGED <<procVars, cv, dp, lcRun, pm, ip, tv, ur>>

SpecPs == Init /\ [][NextPs]_vars

\* SpecHx: classifyLines on dotted, dashed, thin and thick lines, without a
\* model, with a model whose predict throws, and with a working model
NextHx ==
  \/ \E raw \in HeuristicLines :
       LineDetected(raw) /\ UNCHANGED <<procVars, cv, dp, sc, pm, ip, tv, ur>>
  \/ \E opts \in ContextOptionSets : \E model \in HeuristicModels :
       Classify(opts, model) /\ UNCHANGED <<procVars, cv, dp, sc, pm, ip, tv, ur>>
  \/ FilterAndReturn /\ UNCHANGED <<procVars, cv, dp, sc, pm, ip, tv, ur>>

SpecHx == Init /\ [][NextHx]_vars

\* SpecUr: calls of saveState, undo, redo and clearHistory in any order
NextUr ==
  \/ SaveStateCall(PlanRooms, PlanWalls) /\ UNCHANGED <<procVars, cv, dp, lcRun, sc, pm, ip, tv>>
  \/ UndoCall /\ UNCHANGED <<procVars, cv, dp, lcRun, sc, pm, ip, tv>>
  \/ RedoCall /\ UNCHANGED <<procVars, cv, dp, lcRun, sc, pm, ip, tv>>
  \/ ClearHistoryCall /\ UNCHANGED <<procVars, cv, dp, lcRun, sc, pm, ip, tv>>

SpecUr == Init /\ [][NextUr]_vars

\* SpecFc: the converter from the upload to the view step, with colour
\* changes, undo, redo and reset
NextFc ==
  \/ ImageUpload /\ UNCHANGED <<procVars, cv, dp, lcRun, sc, pm, ip, tv>>
  \/ ProcessComplete(PlanData) /\ UNCHANGED <<procVars, cv, dp, lcRun, sc, pm, ip, tv>>
  \/ \E roomId \in RoomIds : \E color \in Colors :
       RoomColorChange(roomId, color) /\ UNCHANGED <<procVars, cv, dp, lcRun, sc, pm, ip, tv>>
  \/ Undo /\ UNCHANGED <<procVars, cv, dp, lcRun, sc, pm, ip, tv>>
  \/ Redo /\ UNCHANGED <<procVars, cv, dp, lcRun, sc, pm, ip, tv>>
  \/ Reset /\ UNCHANGED <<procVars, cv, dp, lcRun, sc, pm, ip, tv>>

SpecFc == Init /\ [][NextFc]_vars

\* What follows a call of processImage without anybody's doing: the awaited
\* promises settle, the load event of a decodable image fires, timers fire
IpProgress ==
  /\ \/ \E handlerThrows \in BOOLEAN : TryHands(handlerThrows)
     \/ TryThrows
     \/ FallbackImageLoads
     \/ FallbackStep
     \/ \E handlerThrows \in BOOLEAN : FallbackHands(handlerThrows)
  /\ UNCHANGED <<procVars, cv, dp, lcRun, sc, pm, tv, ur>>

\* SpecIpLive: SpecIp, where no call of processImage is left waiting when
\* it has a step it can take
SpecIpLive == Init /\ [][NextIp]_vars /\ WF_vars(IpProgress)

(***************************************************************************)
(* Properties                                                              *)
(***************************************************************************)
\* The documented order of the stages
DocRank(n) ==
  CASE n = "blueprint_analysis" -> 1
    [] n = "text_filtering" -> 2
    [] n = "line_classification" -> 3
    [] n = "structure_generation" -> 4
    [] n = "quality_assessment" -> 5
    [] n = "preview_generation" -> 6
    [] OTHER -> 0

StatusOf(rn, n) ==
  IF FindStage(rn.result.stages, n) = 0 THEN "absent"
  ELSE rn.result.stages[FindStage(rn.result.stages, n)].status

StageEnabled(o, n) ==
  CASE n = "text_filtering" -> o.enableTextFiltering
    [] n = "line_classification" -> o.enableLineClassification
    [] n = "preview_generation" -> o.generatePreview
    [] OTHER -> TRUE

InRun(rn) == rn.pc \in {"init", "ready", "running"} \/ (rn.pc = "done" /\ ~rn.fromCache)

C1State(rn) ==
  /\ \A a, b \in 1..Len(rn.started) :
       a < b => DocRank(rn.started[a]) < DocRank(rn.started[b])
  /\ \A a \in 1..Len(rn.started) :
       /\ DocRank(rn.started[a]) > 0
       /\ StageEnabled(rn.opts, rn.started[a])
       /\ a < Len(rn.started) => StatusOf(rn, rn.started[a]) = "completed"
  /\ Cardinality({i \in 1..Len(rn.result.stages) :
                    rn.result.stages[i].status = "processing"}) <= 1
  /\ \A i \in 1..Len(rn.result.stages) :
       rn.result.stages[i].status # "pending"
         => \E a \in 1..Len(rn.started) : rn.started[a] = rn.result.stages[i].name

C1Step(old, new) ==
  /\ Len(new.started) > Len(old.started) =>
       /\ SubSeq(new.started, 1, Len(old.started)) = old.started
       /\ Len(new.started) = Len(old.started) + 1
       /\ \A i \in 1..Len(old.result.stages) :
            old.result.stages[i].status \in {"pending", "completed"}
       /\ StatusOf(old, new.started[Len(new.started)]) = "pending"
       /\ StatusOf(new, new.started[Len(new.started)]) = "processing"
  /\ (old.pc # "idle" /\ new.pc # "idle") =>
       \A i \in 1..Len(old.result.stages) :
         LET a == old.result.stages[i].status
             b == new.result.stages[i].status
         IN \/ a = b
            \/ a = "pending" /\ b = "processing"
            \/ a = "processing" /\ b \in {"completed", "error"}

\* C1: in every run of process the stages are started in the documented
\* order (only the enabled ones), a stage is started only when every stage
\* started before it has finished, at most one stage is 'processing', and a
\* status changes only pending -> processing -> completed | error.
Thm_C1 ==
  [][\A r \in Slots :
       /\ InRun(run'[r]) => C1State(run'[r])
       /\ (InRun(run[r]) /\ InRun(run'[r])) => C1Step(run[r], run'[r])]_vars

Wit_C1 ==
  \E r \in Slots :
    /\ run[r].pc = "done"
    /\ run[r].started = Plan
    /\ \A i \in 1..Len(run[r].result.stages) :
         run[r].result.stages[i].status = "completed"

\* A stage function threw in this run (not initialize, not the cache key)
StageThrew(rn) == rn.pc = "done" /\ ~rn.fromCache /\ rn.exc.thrown /\ rn.pos > 0

NoDuplicates(seq) == \A a, b \in 1..Len(seq) : a # b => seq[a] # seq[b]

\* C2: when the execution of a stage throws, that stage ends 'error' and
\* carries the error message, the same message is appended to errors, every
\* later stage stays 'pending', no stage is executed twice, and process
\* returns the partial result.
Cex_C2 ==
  \A r \in Slots :
    StageThrew(run[r]) =>
      LET rn == run[r]
          i == FindStage(rn.result.stages, Plan[rn.pos])
      IN /\ rn.outcome = "resolved"
         /\ rn.result.stages[i].status = "error"
         /\ rn.result.stages[i].error # ""
         /\ rn.result.errors = <<rn.result.stages[i].error>>
         /\ \A k \in (i + 1)..Len(rn.result.stages) :
              rn.result.stages[k].status = "pending"
         /\ NoDuplicates(rn.started)

\* C3: whenever blueprint analysis, text filtering / OCR or structure
\* generation fails during a run, the stage in which it failed ends with
\* status 'error' and the returned errors list is not empty.
Cex_C3 ==
  \A r \in Slots :
    (run[r].pc = "done" /\ run[r].outcome = "resolved" /\ ~run[r].fromCache) =>
      LET rn == run[r]
          Recorded(n) == StatusOf(rn, n) = "error" /\ rn.result.errors # <<>>
      IN /\ rn.result.analysis.failed => Recorded("blueprint_analysis")
         /\ rn.result.textFilter.failed => Recorded("text_filtering")
         /\ rn.result.cvFailed => Recorded("structure_generation")

\* C4: process never rejects: every call settles by resolving with a result.
Cex_C4 == \A r \in Slots : run[r].outcome # "rejected"

\* The option set as the cache key is meant to see it (the callback aside)
SameOptionSet(a, b) ==
  [a EXCEPT !.progressCallback = "none"] = [b EXCEPT !.progressCallback = "none"]

\* C5: a call receives a cached result only when the run that stored it had
\* the same input content and the same option set.
Cex_C5 ==
  \A r \in Slots :
    (run[r].pc = "done" /\ run[r].fromCache /\ run[r].outcome = "resolved") =>
      /\ run[r].result.originalInput.data = run[r].input.data
      /\ SameOptionSet(run[r].result.madeWith, run[r].opts)

CleanResult(res) ==
  /\ res.errors = <<>>
  /\ \A i \in 1..Len(res.stages) : res.stages[i].status \notin {"error", "processing"}

\* C6: every cached result has an empty errors list and no stage with
\* status 'error' or 'processing'; the cache gains an entry only in the step
\* in which a run finishes with every started stage completed; and a run
\* that ends in an error leaves the cache unchanged.
Thm_C6 ==
  [][/\ \A k \in DOMAIN cache' : CleanResult(cache'[k])
     /\ (cache' # cache /\ cache' # <<>>) =>
          \E r \in Slots :
            /\ run[r].pc = "ready" /\ run'[r].pc = "done"
            /\ run'[r].result.errors = <<>>
            /\ \A a \in 1..Len(run'[r].started) :
                 StatusOf(run'[r], run'[r].started[a]) = "completed"
            /\ DOMAIN cache' = DOMAIN cache \cup {run'[r].key}
            /\ cache'[run'[r].key] = run'[r].result
            /\ \A k \in DOMAIN cache : k # run'[r].key => cache'[k] = cache[k]
     /\ \A r \in Slots :
          (run[r].pc # "done" /\ run'[r].pc = "done" /\ run'[r].result.errors # <<>>)
            => cache' = cache]_vars

Wit_C6 ==
  /\ cache # <<>>
  /\ \E r \in Slots :
       /\ run[r].pc = "done"
       /\ ~run[r].fromCache
       /\ run[r].result.errors # <<>>
       /\ run[r].key \notin DOMAIN cache

\* The call made in this step repeats the latest settled call, which
\* completed successfully
RepeatsLast(r) ==
  /\ run[r].pc = "idle" /\ run'[r].pc # "idle"
  /\ last.valid /\ last.outcome = "resolved" /\ last.result.errors = <<>>
  /\ run'[r].input = last.input
  /\ run'[r].opts = last.opts

\* C7: a call that repeats a successfully completed call returns a result
\* equal to the first (warnings and errors included) and executes no stage:
\* the only progress event is the cache-hit event.
Cex_C7 ==
  [][\A r \in Slots :
       RepeatsLast(r) =>
         /\ run'[r].pc = "done"
         /\ run'[r].outcome = "resolved"
         /\ run'[r].result = last.result
         /\ run'[r].started = <<>>
         /\ run'[r].events = <<[stage |-> "cache", progress |-> 100]>>
         /\ fpaImage' = fpaImage]_vars

\* C8: while an entry could be cached the stages are computed at most once
\* per key: of two calls with identical input and options, the second does
\* not execute the stages again, also when it starts while the first is
\* suspended at an await.
Cex_C8 ==
  \A r, s \in Slots :
    (r # s /\ run[r].input = run[s].input /\ run[r].opts = run[s].opts
       /\ run[r].pc # "idle" /\ run[s].pc # "idle")
      => ~(run[r].started # <<>> /\ run[s].started # <<>>)

\* What a fresh processor returns for the raster of this run
FreshRooms(rn) ==
  LET img == IF ImageAtHand(rn.result) # NoImage THEN ImageAtHand(rn.result)
             ELSE convertInputToImageData(rn.input)
  IN convertRooms(processFloorPlan(img, ~rn.result.cvFailed).rooms)

FreshWalls(rn) ==
  LET img == IF ImageAtHand(rn.result) # NoImage THEN ImageAtHand(rn.result)
             ELSE convertInputToImageData(rn.input)
  IN convertWalls(processFloorPlan(img, ~rn.result.cvFailed).walls)

\* C9: when the cache holds no entry for the key, the rooms and walls that
\* process returns are those a fresh processor returns for the same input.
Cex_C9 ==
  \A r \in Slots :
    (run[r].pc = "done" /\ ~run[r].fromCache
       /\ StatusOf(run[r], "structure_generation") = "completed") =>
      /\ run[r].result.rooms = FreshRooms(run[r])
      /\ run[r].result.walls = FreshWalls(run[r])

ProgressOk(events) ==
  /\ \A k \in 1..Len(events) : events[k].progress \in 0..100
  /\ \A a, b \in 1..Len(events) :
       (a < b /\ events[a].stage = events[b].stage)
         => events[a].progress <= events[b].progress

\* C10: within one run the progress values reported for a stage lie in
\* 0..100 and never decrease, and every callback that names a stage is made
\* while that stage is the one executing.
Thm_C10 ==
  [][\A r \in Slots :
       /\ ProgressOk(run'[r].events)
       /\ (run[r].pc # "idle" /\ run'[r].pc # "idle") =>
            /\ Len(run'[r].events) >= Len(run[r].events)
            /\ SubSeq(run'[r].events, 1, Len(run[r].events)) = run[r].events
            /\ \A k \in (Len(run[r].events) + 1)..Len(run'[r].events) :
                 LET n == run'[r].events[k].stage
                 IN /\ DocRank(n) > 0
                    /\ \/ StatusOf(run[r], n) = "processing"
                       \/ StatusOf(run[r], n) = "pending"
                            /\ StatusOf(run'[r], n) = "processing"
                    /\ \A i \in 1..Len(run[r].result.stages) :
                         run[r].result.stages[i].name # n
                           => run[r].result.stages[i].status # "processing"]_vars

Wit_C10 ==
  \E r \in Slots :
    /\ run[r].pc = "done"
    /\ \E a, b, c \in 1..Len(run[r].events) :
         /\ a < b /\ b < c
         /\ run[r].events[a] = [stage |-> "structure_generation", progress |-> 0]
         /\ run[r].events[b] = [stage |-> "structure_generation", progress |-> 80]
         /\ run[r].events[c] = [stage |-> "structure_generation", progress |-> 100]

\* C11: for the all-white raster, whose one region exceeds the room maximum,
\* detectRooms finds no room and processFloorPlan returns the default set of
\* 4 rooms with confidence 0.3.
Cex_C11 ==
  (cv.pc = "returned" /\ cv.raster = WhiteRaster) =>
    /\ Len(cv.rooms) = 0
    /\ cv.result.rooms.fallback /\ cv.result.rooms.count = 4
    /\ cv.result.confidence = 30

\* C12: every room detectRooms returns has at least 3 vertices and a pixel
\* area within [1000, 30000].
Thm_C12 ==
  cv.pc \in {"scan", "done", "returned"} =>
    \A k \in 1..Len(cv.rooms) :
      /\ Len(cv.rooms[k].vertices) >= 3
      /\ cv.rooms[k].area >= MinRoomPixels
      /\ cv.rooms[k].area <= MaxRoomPixels

Wit_C12 ==
  /\ cv.pc = "done"
  /\ cv.raster = PlanRaster
  /\ Len(cv.rooms) = 2

Collinear(c) ==
  \A i, j, k \in 1..Len(c) :
    (c[j][1] - c[i][1]) * (c[k][2] - c[i][2]) = (c[j][2] - c[i][2]) * (c[k][1] - c[i][1])

\* C14: simplifyContour turns two or more collinear points, in any order
\* along the line and for any tolerance, into the first and the last point.
Cex_C14 ==
  (dp.pc = "simplified" /\ dp.purpose = "simplify" /\ dp.pass = 1
     /\ Len(dp.input) >= 2 /\ Collinear(dp.input)) =>
    dp.simplified = <<dp.input[1], dp.input[Len(dp.input)]>>

\* C15: simplifying the result of simplifyContour again with the same
\* tolerance returns the same points in the same order.
Cex_C15 ==
  (dp.pc = "simplified" /\ dp.purpose = "simplify" /\ dp.pass = 2) =>
    dp.simplified = dp.first

\* C16 as claimed: every returned line has a confidence within [0,1], and
\* the final filter removes all and only the lines with a confidence below
\* the threshold.
Cex_C16 ==
  (lcRun.pc = "returned" /\ ~lcRun.failed) =>
    /\ \A k \in 1..Len(lcRun.lines) : lcRun.lines[k].confidence \in 0..100
    /\ \A k \in 1..Len(lcRun.classified) :
         (lcRun.classified[k].confidence >= lcRun.opts.confidenceThreshold)
           <=> (\E j \in 1..Len(lcRun.lines) : lcRun.lines[j] = lcRun.classified[k])

\* The classified lines that pass both tests, in their order
RECURSIVE Passing(_, _)
Passing(lines, opts) ==
  IF lines = <<>> THEN <<>>
  ELSE (IF Head(lines).confidence >= opts.confidenceThreshold
           /\ Head(lines).length >= opts.minLineLength
          THEN <<Head(lines)>> ELSE <<>>) \o Passing(Tail(lines), opts)

\* C16 as amended: every returned line has a confidence within [0,1], and
\* the result holds, in their order, exactly the classified lines whose
\* confidence is at least the threshold and whose length is at least
\* minLineLength.
Thm_C16 ==
  (lcRun.pc = "returned" /\ ~lcRun.failed) =>
    /\ \A k \in 1..Len(lcRun.lines) : lcRun.lines[k].confidence \in 0..100
    /\ lcRun.lines = Passing(lcRun.classified, lcRun.opts)

Wit_C16 ==
  /\ lcRun.pc = "returned" /\ ~lcRun.failed
  /\ Len(lcRun.lines) > 0
  /\ Len(lcRun.lines) < Len(lcRun.classified)
  /\ \E k \in 1..Len(lcRun.classified) :
       /\ lcRun.classified[k].confidence = lcRun.opts.confidenceThreshold
       /\ lcRun.classified[k].length >= lcRun.opts.minLineLength
  /\ \E k \in 1..Len(lcRun.classified) :
       /\ lcRun.classified[k].confidence >= lcRun.opts.confidenceThreshold
       /\ lcRun.classified[k].length < lcRun.opts.minLineLength

\* C17: whenever calibrate, called with its default options, returns for a
\* sheet that holds a black horizontal bar 100 pixels long and a text region
\* reading "5m" adjacent to the bar (the bar anywhere on the sheet, the text
\* on any side of it), the detected scale has the ratio 20 pixels per metre,
\* the unit METER and a confidence of at least 0.7.
Cex_C17 ==
  (/\ sc.pc = "returned"
   /\ sc.opts = DefaultCalibration
   /\ sc.bar.length = 100
   /\ sc.textRegions[1].text = FiveMetres
   /\ Adjacent(sc.bar, [x |-> sc.textRegions[1].bbox.x, y |-> sc.textRegions[1].bbox.y]))
  => /\ sc.result.detectedScale.ratio = <<20, 1>>
     /\ sc.result.detectedScale.unit = "m"
     /\ sc.result.confidence >= 70

\* The entries of the store that have expired at the time of the state
Expired(store, now) == {k \in 1..Len(store) : now - store[k].timestamp >= CACHE_EXPIRY}

\* The entries of the store that a step takes out of the storage
Removed(before, after) ==
  {k \in 1..Len(before) : \A j \in 1..Len(after) : after[j] # before[k]}

\* The store never holds more than MAX_CACHE_SIZE entries, a write keeps the
\* newest by timestamp (no entry that it drops for size is newer than one
\* that it keeps), and a read never hands out an entry 24 hours old or older
CacheBounded ==
  /\ Len(pm.store) <= MAX_CACHE_SIZE
  /\ pm.found # NoEntry => pm.now - pm.found.timestamp < CACHE_EXPIRY

KeepsNewest ==
  pm'.op = "cacheResult" =>
    \A k \in Removed(pm.store, pm'.store) \ Expired(pm.store, pm.now) :
      \A j \in 1..Len(pm'.store) : pm.store[k].timestamp <= pm'.store[j].timestamp

ReadKeepsStore == pm'.op = "getCachedResult" => pm'.store = pm.store

\* C18 as stated: after any sequence of cacheResult, getCachedResult and
\* clearCache calls the store holds at most 10 entries, the newest by
\* timestamp; getCachedResult never returns an entry 24 hours old or older;
\* and an expired entry leaves the storage only in a cacheResult step, never
\* in a read.
Cex_C18 ==
  /\ []CacheBounded
  /\ [][/\ KeepsNewest
        /\ ReadKeepsStore
        /\ (Removed(pm.store, pm'.store) \cap Expired(pm.store, pm.now) # {}
              => pm'.op = "cacheResult")]_vars

\* C18, amended: as above, but an expired entry leaves the storage only in a
\* cacheResult step or when clearCache empties the storage, never in a read.
Thm_C18 ==
  /\ []CacheBounded
  /\ [][/\ KeepsNewest
        /\ ReadKeepsStore
        /\ (Removed(pm.store, pm'.store) \cap Expired(pm.store, pm.now) # {}
              => pm'.op \in {"cacheResult", "clearCache"})]_vars

\* C18 witness: a read misses an image whose entries have all expired, while
\* the store is full, and the expired entries are still stored
Wit_C18 ==
  /\ pm.op = "getCachedResult" /\ pm.found = NoEntry
  /\ Len(pm.store) = MAX_CACHE_SIZE
  /\ \E k \in Expired(pm.store, pm.now) : pm.store[k].imageData = pm.image

\* The step in which the quality assessment of run r completes
QualityAssessed(r) ==
  /\ run[r].pc = "running" /\ Plan[run[r].pos] = "quality_assessment"
  /\ run'[r].pc = "ready"

\* processFloorPlan ran to its return and the detection had found nothing
FoundNone(res, shapes) == shapes.fallback /\ ~res.cvFailed

\* C19: in a run that completes quality assessment the warnings hold the
\* no-rooms warning whenever room detection found zero rooms, the no-walls
\* warning whenever wall extraction found zero walls and the low-confidence
\* warning whenever the overall confidence is below 0.5; and generating the
\* warnings changes no status of another stage, no error entry and no field
\* of the result other than the ones the quality assessment writes.
Cex_C19 ==
  [][\A r \in Slots :
       QualityAssessed(r) =>
         LET before == run[r].result
             after == run'[r].result
         IN  /\ FoundNone(after, after.rooms) =>
                   "No rooms were detected in the blueprint." \in after.warnings
             /\ FoundNone(after, after.walls) =>
                   "No walls were detected in the blueprint." \in after.warnings
             /\ after.confidence.total < 50 * after.confidence.components =>
                   "Low confidence in processing results. Manual review recommended."
                     \in after.warnings
             /\ after.errors = before.errors
             /\ \A i \in 1..Len(before.stages) :
                   before.stages[i].name # "quality_assessment" =>
                     after.stages[i] = before.stages[i]
             /\ [after EXCEPT !.warnings = before.warnings,
                              !.confidence = before.confidence,
                              !.stages = before.stages] = before]_vars

\* The fallback path has handed its layout to onProcessComplete
FallbackHanded == ip.fellBack /\ ip.pc \in {"done", "pending"}

RoomNames(rooms) == [k \in 1..Len(rooms) |-> rooms[k].name]

Cex_C21 ==
  tv.pc = "returned" =>
    /\ tv.fn = "traceContour" =>
         tv.out.peak <= MaxTraceStack /\ tv.out.n <= MaxContourSize
    /\ tv.fn = "floodFill" =>
         tv.out.peak <= MaxStackSize /\ tv.out.n <= MaxPixelCount
    /\ tv.out.stopped \/ tv.out.left = 0

\* The 4-connected regions of bright pixels of a raster, each a rectangle:
\* the whole of a white raster, none of a dark one, and in the plan the two
\* rooms that its dark lines enclose
BrightRegions(r) ==
  IF r.name = "dark" THEN {}
  ELSE IF r.name = "plan"
  THEN {[minX |-> 1, maxX |-> 49, minY |-> 1, maxY |-> 58],
        [minX |-> 51, maxX |-> 98, minY |-> 1, maxY |-> 58]}
  ELSE {[minX |-> 0, maxX |-> r.width - 1, minY |-> 0, maxY |-> r.height - 1]}

RegionSize(g) == (g.maxX - g.minX + 1) * (g.maxY - g.minY + 1)

\* The room lies in the region: its bounding box does
RoomIn(r, room, g) ==
  /\ room.vertices[1][1] >= 2 * g.minX - r.width
  /\ room.vertices[1][2] >= 2 * g.minY - r.height
  /\ room.vertices[3][1] <= 2 * g.maxX - r.width
  /\ room.vertices[3][2] <= 2 * g.maxY - r.height

\* The room covers the whole region: every pixel of it, from edge to edge
RoomCovers(r, room, g) ==
  /\ room.area = RegionSize(g)
  /\ room.vertices[1] = <<2 * g.minX - r.width, 2 * g.minY - r.height>>
  /\ room.vertices[3] = <<2 * g.maxX - r.width, 2 * g.maxY - r.height>>

\* C22: every room that detectRooms returns covers one whole 4-connected
\* region of bright pixels (a fill that stopped at a cap is never accepted),
\* and no region yields more than one room.
Cex_C22 ==
  cv.pc = "done" =>
    /\ \A k \in 1..Len(cv.rooms) :
         \E g \in BrightRegions(cv.raster) : RoomCovers(cv.raster, cv.rooms[k], g)
    /\ \A g \in BrightRegions(cv.raster) :
         Cardinality({k \in 1..Len(cv.rooms) : RoomIn(cv.raster, cv.rooms[k], g)}) <= 1

\* Recursive Douglas-Peucker on the points i .. j of a contour: the indices
\* it keeps, in order.  The farthest point is kept when its distance exceeds
\* the tolerance, and both halves are treated alike.
RECURSIVE DouglasPeucker(_, _, _, _)
DouglasPeucker(c, i, j, t) ==
  IF Exceeds(Farthest(c, i, j).maxDist, t)
  THEN DouglasPeucker(c, i, Farthest(c, i, j).maxIndex, t)
         \o Tail(DouglasPeucker(c, Farthest(c, i, j).maxIndex, j, t))
  ELSE <<i, j>>

PointsAt(c, K) == [k \in 1..Len(K) |-> c[K[k]]]

\* C23: simplifyContour returns what recursive Douglas-Peucker returns for
\* the same contour and tolerance: the kept points in their original order,
\* none repeated, from the first input point to the last.
Cex_C23 ==
  (dp.pc = "simplified" /\ dp.purpose = "simplify" /\ dp.pass = 1
     /\ Len(dp.input) >= 2) =>
    /\ dp.simplified = PointsAt(dp.input, DouglasPeucker(dp.input, 1, Len(dp.input), dp.tolerance))
    /\ dp.simplified[1] = dp.input[1]
    /\ dp.simplified[Len(dp.simplified)] = dp.input[Len(dp.input)]

\* Two directions are parallel when their angles differ by less than 0.1
\* radians, or by less than 0.1 radians from pi (angles in milliradians)
NearlyParallel(a, b) ==
  \/ (IF a > b THEN a - b ELSE b - a) < 100
  \/ (IF a > b THEN a - b ELSE b - a) - 3142 \in -99..99

ParallelNeighbours(lines, k) ==
  Cardinality({j \in 1..Len(lines) :
                 j # k /\ NearlyParallel(lines[k].angle, lines[j].angle)})

\* What the context analysis does to one line
ContextEffect(before, after, neighbours) ==
  IF neighbours > 3 /\ before.type = "unknown"
  THEN /\ after.type = "wall"
       /\ after.confidence = (IF before.confidence + 20 > 90 THEN 90
                              ELSE before.confidence + 20)
  ELSE /\ after.type = before.type
       /\ after.confidence = before.confidence

Cex_C25 ==
  sc.pc = "parsed" =>
    /\ sc.parsed.ok
    /\ sc.parsed.length[1] * sc.written.length[2]
         = sc.written.length[1] * sc.parsed.length[2]
    /\ sc.parsed.unit = sc.written.unit

\* 'completed' stages, then at most one 'error' stage, then 'pending' stages
StagesInOrder(stages) ==
  \E a \in 0..Len(stages) : \E b \in {a, a + 1} :
    /\ b <= Len(stages)
    /\ \A i \in 1..a : stages[i].status = "completed"
    /\ \A i \in (a + 1)..b : stages[i].status = "error"
    /\ \A i \in (b + 1)..Len(stages) : stages[i].status = "pending"

\* C26: in every result that process returns and that did not come from the
\* cache, the stage list reads: 'completed' stages, then at most one 'error'
\* stage, then 'pending' stages; and when errors is empty every listed stage
\* is 'completed' with progress 100.
Cex_C26 ==
  \A r \in Slots :
    (run[r].pc = "done" /\ run[r].outcome = "resolved" /\ ~run[r].fromCache) =>
      /\ StagesInOrder(run[r].result.stages)
      /\ run[r].result.errors = <<>> =>
           \A i \in 1..Len(run[r].result.stages) :
             /\ run[r].result.stages[i].status = "completed"
             /\ run[r].result.stages[i].progress = 100

\* classifyLines classified with the heuristic rules: ML disabled, no model
\* loaded, or the prediction failed
HeuristicPath(l) ==
  ~l.opts.enableMLClassification \/ l.model \in {"none", "failing"}

WallOrUnknown(lines) ==
  \A k \in 1..Len(lines) : lines[k].type \in {"wall", "unknown"}

\* C27: on the heuristic path every line classifyLines classifies and
\* returns is a wall or unknown; dimension, annotation and grid lines are
\* never produced.
Thm_C27 ==
  (lcRun.pc \in {"classified", "returned"} /\ ~lcRun.failed /\ HeuristicPath(lcRun)) =>
    /\ WallOrUnknown(lcRun.classified)
    /\ lcRun.pc = "returned" => WallOrUnknown(lcRun.lines)

\* The prediction failed on thin dotted lines with three parallel lines each
\* and a dashed line, and all of them are returned
Wit_C27 ==
  /\ lcRun.pc = "returned"
  /\ lcRun.opts.enableMLClassification /\ lcRun.model = "failing"
  /\ Len(lcRun.lines) = Len(lcRun.rawLines)
  /\ \E k \in 1..Len(lcRun.lines) :
       /\ lcRun.lines[k].features.style = "dotted"
       /\ lcRun.lines[k].thickness < 2
       /\ lcRun.lines[k].features.parallelLines > 2
  /\ \E k \in 1..Len(lcRun.lines) : lcRun.lines[k].features.style = "dashed"

\* C28: one undo after a room colour change shows the rooms and walls as
\* they were immediately before the change, and a redo after that undo shows
\* the changed rooms again.
Cex_C28 ==
  /\ ur.phase = "undone" =>
       ur.data.rooms = ur.prior.rooms /\ ur.data.walls = ur.prior.walls
  /\ ur.phase = "redone" =>
       ur.data.rooms = ur.changed.rooms /\ ur.data.walls = ur.changed.walls

\* C29: after any sequence of saveState, undo, redo and clearHistory calls
\* the undo stack holds at most MAX_HISTORY states, the two stacks together
\* hold at most MAX_HISTORY states, and the redo stack is empty right after
\* every saveState.
Thm_C29 ==
  /\ Len(ur.undoStack) <= MAX_HISTORY
  /\ Len(ur.undoStack) + Len(ur.redoStack) <= MAX_HISTORY
  /\ ur.op = "saveState" => ur.redoStack = <<>>

\* saveState was called on a full undo stack, and states have been undone
Wit_C29 ==
  /\ Len(ur.undoStack) + Len(ur.redoStack) = MAX_HISTORY
  /\ Len(ur.redoStack) > 0
  /\ ur.op = "undo"

====
